---- MODULE Spec2Model ----
(***************************************************************************)
(* DC circuit solver of web-cad: simulateCircuit of                        *)
(* src/simulation/simulator.ts (subcircuit flattening, union-find node     *)
(* identification, ground selection, matrix assembly, linear solve, result *)
(* composition), modelled stage by stage, and the older variant of the     *)
(* same function without flattening (src/unnamed/part_000), modelled as    *)
(* one step.                                                               *)
(*                                                                         *)
(* Numbers are exact rationals <<numerator, denominator>>; the source uses *)
(* IEEE-754 doubles.  Resistor values are drawn from non-zero integers, so *)
(* that 1 / value and every later quotient is finite.                      *)
(*                                                                         *)
(* The mathjs calls are modelled by what they compute: zeros gives the     *)
(* zero matrix, get/set read and write one entry, lusolve runs an LU       *)
(* decomposition with partial pivoting followed by forward and backward    *)
(* substitution, and the backward substitution throws only when it meets a *)
(* zero pivot together with a non-zero right-hand side.                    *)
(***************************************************************************)
EXTENDS Integers, Sequences, FiniteSets, TLC

VARIABLES
  variant,           \* which simulateCircuit is called: "simulator" or "basic"
  components,        \* argument: CircuitComponent[]
  wires,             \* argument: Wire[]
  subcircuits,       \* argument: SubCircuit[]
  pc,                \* position inside simulateCircuit
  expandedComponents,
  expandedWires,
  subcircuitTerminalToGlobalTerminalMap,
  parent,            \* uf.parent
  groundNode,
  uniqueNodes,       \* insertion-ordered Set<Node>, as a sequence
  nodeIndexMap,
  matrixSize,
  G,
  I,
  k,                 \* index of the assembly forEach
  floatingReturn,    \* value returned by the assembly callback for a floating source
  V,
  result,            \* value returned by simulateCircuit
  returned,          \* the completed earlier calls: their arguments and results
  app,               \* state of the App component besides components, wires, subcircuits
  canvas,            \* state of the Canvas component
  clock              \* Date.now()

vars == <<variant, components, wires, subcircuits, pc, expandedComponents, expandedWires,
          subcircuitTerminalToGlobalTerminalMap, parent, groundNode, uniqueNodes,
          nodeIndexMap, matrixSize, G, I, k, floatingReturn, V, result, returned,
          app, canvas, clock>>

----------------------------------------------------------------------------
(* Bounds of the explored inputs *)

MaxComps == 2
MaxWires == 2
\* calls a caller makes one after the other
MaxCalls == 3

----------------------------------------------------------------------------
(* Exact rational arithmetic standing in for JavaScript numbers *)

Abs(n) == IF n < 0 THEN -n ELSE n

RECURSIVE Gcd(_, _)
Gcd(a, b) == IF b = 0 THEN a ELSE Gcd(b, a % b)

Rat(n, d) ==
  LET s == IF d < 0 THEN -1 ELSE 1
      g == Gcd(Abs(n), Abs(d))
  IN <<(s * n) \div g, (s * d) \div g>>

RInt(n) == <<n, 1>>
RZero == <<0, 1>>
ROne == <<1, 1>>
RAdd(a, b) == Rat(a[1] * b[2] + b[1] * a[2], a[2] * b[2])
RSub(a, b) == Rat(a[1] * b[2] - b[1] * a[2], a[2] * b[2])
RMul(a, b) == Rat(a[1] * b[1], a[2] * b[2])
RDiv(a, b) == Rat(a[1] * b[2], a[2] * b[1])
RNeg(a) == <<-a[1], a[2]>>
RAbs(a) == <<Abs(a[1]), a[2]>>
RLess(a, b) == a[1] * b[2] < b[1] * a[2]

----------------------------------------------------------------------------
(* Values that stand for null / undefined *)

Null == "null"
NoResult == [none |-> TRUE]
NoError == "undefined"
\* a component that is not rendered: a call of the solver has no editor
Unmounted == "unmounted"
EmptyMap == [x \in {} |-> x]

----------------------------------------------------------------------------
(* Records of src/types/types.ts.  Positions, names and sizes are not read *)
(* by the solver and are left out.                                         *)

CircuitComponent(id, type, value, subcircuitId, terminalMap) ==
  [id |-> id, type |-> type, value |-> value,
   subcircuitId |-> subcircuitId, terminalMap |-> terminalMap]

Endpoint(componentId, terminal) == [componentId |-> componentId, terminal |-> terminal]

Wire(id, from, to) == [id |-> id, from |-> from, to |-> to]

SubCircuit(id, internalComponents, internalWires, inputs, outputs) ==
  [id |-> id, internalComponents |-> internalComponents,
   internalWires |-> internalWires, inputs |-> inputs, outputs |-> outputs]

\* `${comp.id}_${terminal}`
terminalId(id, terminal) == id \o "_" \o ToString(terminal)

----------------------------------------------------------------------------
(* Step 1: flatten subcircuits (simulator.ts 30-110) *)

\* subcircuits.find(s => s.id === comp.subcircuitId): index of the first match, 0 if none
subcircuitDefIndex(subs, sid) ==
  IF \E i \in 1..Len(subs) : subs[i].id = sid
  THEN CHOOSE i \in 1..Len(subs) :
         subs[i].id = sid /\ \A j \in 1..(i - 1) : subs[j].id # sid
  ELSE 0

instancePrefix(comp) == comp.id \o "_"

expandInternalComponent(prefix, internalComp) ==
  [internalComp EXCEPT !.id = prefix \o internalComp.id]

expandInternalWire(prefix, internalWire) ==
  [id |-> prefix \o internalWire.id,
   from |-> Endpoint(prefix \o internalWire.from.componentId, internalWire.from.terminal),
   to |-> Endpoint(prefix \o internalWire.to.componentId, internalWire.to.terminal)]

\* the entries comp.terminalMap adds to subcircuitTerminalToGlobalTerminalMap
terminalMapEntries(comp) ==
  [key \in {comp.id \o "_" \o t : t \in DOMAIN comp.terminalMap} |->
     LET t == CHOOSE t \in DOMAIN comp.terminalMap : comp.id \o "_" \o t = key
     IN comp.terminalMap[t]]

\* one iteration of components.forEach over the accumulators
\* acc = [comps, wires, tmap]
flattenComponent(acc, comp, subs) ==
  IF comp.type = "subcircuit" /\ comp.subcircuitId # ""
  THEN LET d == subcircuitDefIndex(subs, comp.subcircuitId)
       IN IF d = 0
          THEN acc
          ELSE LET def == subs[d]
                   prefix == instancePrefix(comp)
               IN [comps |-> acc.comps \o
                     [i \in 1..Len(def.internalComponents) |->
                        expandInternalComponent(prefix, def.internalComponents[i])],
                   wires |-> acc.wires \o
                     [i \in 1..Len(def.internalWires) |->
                        expandInternalWire(prefix, def.internalWires[i])],
                   tmap |-> terminalMapEntries(comp) @@ acc.tmap]
  ELSE [acc EXCEPT !.comps = Append(acc.comps, comp)]

RECURSIVE flattenFrom(_, _, _, _)
flattenFrom(acc, comps, subs, i) ==
  IF i > Len(comps) THEN acc
  ELSE flattenFrom(flattenComponent(acc, comps[i], subs), comps, subs, i + 1)

\* wires.forEach(wire => expandedWires.push(wire))
copyTopLevelWires(expWires, ws) == expWires \o ws

flatten(comps, ws, subs) ==
  LET acc == flattenFrom([comps |-> <<>>, wires |-> <<>>, tmap |-> EmptyMap], comps, subs, 1)
  IN [acc EXCEPT !.wires = copyTopLevelWires(acc.wires, ws)]

----------------------------------------------------------------------------
(* Union-find (simulator.ts 116-135).  find and union return the parent    *)
(* map they leave behind, since find compresses paths.                     *)

\* a union-find kept from one call to the next: the parent map as the last
\* call left it
sharedUnionFind == parent

\* const uf = new UnionFind(): the parent map of the constructor
newUnionFind == EmptyMap

RECURSIVE find(_, _)
find(par, x) ==
  LET p1 == IF x \in DOMAIN par THEN par ELSE (x :> x) @@ par
  IN IF p1[x] # x
     THEN LET r == find(p1, p1[x])
          IN [parent |-> [r.parent EXCEPT ![x] = r.root], root |-> r.root]
     ELSE [parent |-> p1, root |-> x]

\* variant of union: a is attached to b without looking up the roots
unionWithoutFind(par, a, b) ==
  LET p1 == IF a \in DOMAIN par THEN par ELSE (a :> a) @@ par
      p2 == IF b \in DOMAIN p1 THEN p1 ELSE (b :> b) @@ p1
  IN IF a # b THEN [p2 EXCEPT ![a] = b] ELSE p2

\* variant of union: b itself, not its root, is attached to the root of a
unionAttachesElement(par, a, b) ==
  LET ra == find(par, a)
      rb == find(ra.parent, b)
  IN IF ra.root # rb.root
     THEN [rb.parent EXCEPT ![b] = ra.root]
     ELSE rb.parent

union(par, a, b) ==
  LET ra == find(par, a)
      rb == find(ra.parent, b)
  IN IF ra.root # rb.root
     THEN [rb.parent EXCEPT ![rb.root] = ra.root]
     ELSE rb.parent

\* expandedComponents.forEach(comp => { uf.find(_0); uf.find(_1) })
RECURSIVE establishTerminals(_, _, _)
establishTerminals(par, comps, i) ==
  IF i > Len(comps) THEN par
  ELSE establishTerminals(
         find(find(par, terminalId(comps[i].id, 0)).parent,
              terminalId(comps[i].id, 1)).parent,
         comps, i + 1)

\* expandedWires.forEach(wire => uf.union(from, to))
RECURSIVE unionWires(_, _, _)
unionWires(par, ws, i) ==
  IF i > Len(ws) THEN par
  ELSE unionWires(
         union(par, terminalId(ws[i].from.componentId, ws[i].from.terminal),
                    terminalId(ws[i].to.componentId, ws[i].to.terminal)),
         ws, i + 1)

----------------------------------------------------------------------------
(* Ground selection (simulator.ts 151-165) *)

\* index of the first component of type 'voltage', 0 if none
firstVoltageIndex(comps) ==
  IF \E i \in 1..Len(comps) : comps[i].type = "voltage"
  THEN CHOOSE i \in 1..Len(comps) :
         comps[i].type = "voltage" /\ \A j \in 1..(i - 1) : comps[j].type # "voltage"
  ELSE 0

\* variant of selectGround: the first voltage source's terminal 0 becomes ground
selectGroundAtSourceTerminal0(par, comps) ==
  LET v == firstVoltageIndex(comps)
  IN IF v # 0
     THEN find(par, terminalId(comps[v].id, 0))
     ELSE find(par, terminalId(comps[1].id, 0))

\* variant of selectGround: without a voltage source, the last component's terminal 0
selectGroundAtLastComponent(par, comps) ==
  LET v == firstVoltageIndex(comps)
  IN IF v # 0
     THEN find(par, terminalId(comps[v].id, 1))
     ELSE find(par, terminalId(comps[Len(comps)].id, 0))

\* variant of selectGround: the first component's terminal 0, source or not
selectGroundAtFirstComponent(par, comps) == find(par, terminalId(comps[1].id, 0))

\* the find call that yields groundNode; needs Len(comps) > 0
selectGround(par, comps) ==
  LET v == firstVoltageIndex(comps)
  IN IF v # 0
     THEN find(par, terminalId(comps[v].id, 1))
     ELSE find(par, terminalId(comps[1].id, 0))

----------------------------------------------------------------------------
(* Node indices (simulator.ts 168-184) *)

SeqHas(s, x) == \E i \in 1..Len(s) : s[i] = x
SetAdd(s, x) == IF SeqHas(s, x) THEN s ELSE Append(s, x)
SetDelete(s, x) == SelectSeq(s, LAMBDA y : y # x)

\* acc = [parent, nodes]
RECURSIVE collectUniqueNodes(_, _, _)
collectUniqueNodes(acc, comps, i) ==
  IF i > Len(comps) THEN acc
  ELSE LET f0 == find(acc.parent, terminalId(comps[i].id, 0))
           f1 == find(f0.parent, terminalId(comps[i].id, 1))
       IN collectUniqueNodes(
            [parent |-> f1.parent, nodes |-> SetAdd(SetAdd(acc.nodes, f0.root), f1.root)],
            comps, i + 1)

\* variant of indexNodes: the indices are handed out from the last node to the first
indexNodesFromLast(nodes) == [n \in {nodes[i] : i \in 1..Len(nodes)} |->
                                Len(nodes) - (CHOOSE i \in 1..Len(nodes) : nodes[i] = n)]

\* uniqueNodes.forEach(node => nodeIndexMap.set(node, matrixSize++))
indexNodes(nodes) == [n \in {nodes[i] : i \in 1..Len(nodes)} |->
                        (CHOOSE i \in 1..Len(nodes) : nodes[i] = n) - 1]

\* math.zeros([n, m])
zeros(n, m) == [i \in 0..(n - 1) |-> [j \in 0..(m - 1) |-> RZero]]

----------------------------------------------------------------------------
(* Assembly of G and I (simulator.ts 190-253) *)

Mget(M, i, j) == M[i][j]
Mset(M, i, j, v) == [M EXCEPT ![i][j] = v]

\* conductance of a resistor
conductanceOf(comp) == RDiv(ROne, RInt(comp.value))

\* variant of stampResistor: with one terminal in ground the conductance is
\* subtracted from the diagonal entry
stampResistorGroundedSubtracts(Gm, comp, nodeA, nodeB, gnd, idx) ==
  LET conductance == conductanceOf(comp)
  IN IF nodeA # gnd /\ nodeB # gnd
     THEN LET a == idx[nodeA]
              b == idx[nodeB]
              G1 == Mset(Gm, a, a, RAdd(Mget(Gm, a, a), conductance))
              G2 == Mset(G1, b, b, RAdd(Mget(G1, b, b), conductance))
              G3 == Mset(G2, a, b, RSub(Mget(G2, a, b), conductance))
          IN Mset(G3, b, a, RSub(Mget(G3, b, a), conductance))
     ELSE IF nodeA # gnd
     THEN Mset(Gm, idx[nodeA], idx[nodeA], RSub(Mget(Gm, idx[nodeA], idx[nodeA]), conductance))
     ELSE IF nodeB # gnd
     THEN Mset(Gm, idx[nodeB], idx[nodeB], RSub(Mget(Gm, idx[nodeB], idx[nodeB]), conductance))
     ELSE Gm

\* resistor branch, given the two nodes
stampResistor(Gm, comp, nodeA, nodeB, gnd, idx) ==
  LET conductance == conductanceOf(comp)
  IN IF nodeA # gnd /\ nodeB # gnd
     THEN LET a == idx[nodeA]
              b == idx[nodeB]
              G1 == Mset(Gm, a, a, RAdd(Mget(Gm, a, a), conductance))
              G2 == Mset(G1, b, b, RAdd(Mget(G1, b, b), conductance))
              G3 == Mset(G2, a, b, RSub(Mget(G2, a, b), conductance))
          IN Mset(G3, b, a, RSub(Mget(G3, b, a), conductance))
     ELSE IF nodeA # gnd
     THEN Mset(Gm, idx[nodeA], idx[nodeA], RAdd(Mget(Gm, idx[nodeA], idx[nodeA]), conductance))
     ELSE IF nodeB # gnd
     THEN Mset(Gm, idx[nodeB], idx[nodeB], RAdd(Mget(Gm, idx[nodeB], idx[nodeB]), conductance))
     ELSE Gm

\* variant of sourceTarget with the signs exchanged: terminal 1 taken as the
\* positive terminal
sourceTargetTerminal1Positive(comp, nodeP, nodeN, gnd) ==
  IF nodeP = gnd
  THEN [floating |-> FALSE, targetNode |-> nodeN, voltage |-> RInt(comp.value)]
  ELSE IF nodeN = gnd
  THEN [floating |-> FALSE, targetNode |-> nodeP, voltage |-> RNeg(RInt(comp.value))]
  ELSE [floating |-> TRUE, targetNode |-> Null, voltage |-> RInt(comp.value)]

\* targetNode and voltage of a voltage source; floating when neither node is ground
sourceTarget(comp, nodeP, nodeN, gnd) ==
  IF nodeP = gnd
  THEN [floating |-> FALSE, targetNode |-> nodeN, voltage |-> RNeg(RInt(comp.value))]
  ELSE IF nodeN = gnd
  THEN [floating |-> FALSE, targetNode |-> nodeP, voltage |-> RInt(comp.value)]
  ELSE [floating |-> TRUE, targetNode |-> Null, voltage |-> RInt(comp.value)]

\* row idx of G set to the identity row
identityRow(Gm, idx, n) ==
  [Gm EXCEPT ![idx] = [col \in 0..(n - 1) |-> IF col = idx THEN ROne ELSE RZero]]

floatingSourceError(comp) ==
  [nodeVoltages |-> EmptyMap, componentCurrents |-> EmptyMap,
   error |-> "Floating voltage source " \o comp.id \o
             " is not fully supported by this simulator version."]

\* one call of the assembly callback
\* st = [parent, G, I, returned]; returned is the callback's return value
assembleComponent(st, comp, gnd, idx, n) ==
  IF comp.type = "resistor"
  THEN LET fA == find(st.parent, terminalId(comp.id, 0))
           fB == find(fA.parent, terminalId(comp.id, 1))
       IN [parent |-> fB.parent,
           G |-> stampResistor(st.G, comp, fA.root, fB.root, gnd, idx),
           I |-> st.I, returned |-> NoResult]
  ELSE IF comp.type = "voltage"
  THEN LET fP == find(st.parent, terminalId(comp.id, 0))
           fN == find(fP.parent, terminalId(comp.id, 1))
           t == sourceTarget(comp, fP.root, fN.root, gnd)
       IN IF t.floating
          THEN [parent |-> fN.parent, G |-> st.G, I |-> st.I,
                returned |-> floatingSourceError(comp)]
          ELSE IF t.targetNode # gnd /\ t.targetNode \in DOMAIN idx
          THEN [parent |-> fN.parent,
                G |-> identityRow(st.G, idx[t.targetNode], n),
                I |-> Mset(st.I, idx[t.targetNode], 0, t.voltage),
                returned |-> NoResult]
          ELSE [parent |-> fN.parent, G |-> st.G, I |-> st.I, returned |-> NoResult]
  ELSE [st EXCEPT !.returned = NoResult]

----------------------------------------------------------------------------
(* math.lusolve (called at simulator.ts 260) *)

\* G with I as an extra column
augmented(Gm, Iv, n) ==
  [i \in 0..(n - 1) |-> [j \in 0..n |-> IF j < n THEN Gm[i][j] ELSE Iv[i][0]]]

\* partial pivoting: the first row at or below j with the largest absolute value in column j
pivotRow(A, j, n) ==
  CHOOSE i \in j..(n - 1) :
    \A r \in j..(n - 1) :
      /\ ~RLess(RAbs(A[i][j]), RAbs(A[r][j]))
      /\ (r < i => RLess(RAbs(A[r][j]), RAbs(A[i][j])))

RECURSIVE lup(_, _, _)
lup(A, j, n) ==
  IF j >= n THEN A
  ELSE LET pi == pivotRow(A, j, n)
           B == [A EXCEPT ![j] = A[pi], ![pi] = A[j]]
           vjj == B[j][j]
           C == IF vjj = RZero THEN B
                ELSE [i \in 0..(n - 1) |->
                        IF i > j /\ B[i][j] # RZero
                        THEN LET f == RDiv(B[i][j], vjj)
                             IN [c \in 0..n |-> RSub(B[i][c], RMul(f, B[j][c]))]
                        ELSE B[i]]
       IN lup(C, j + 1, n)

\* backward substitution; thrown when a zero pivot meets a non-zero right-hand side
RECURSIVE usolve(_, _, _, _)
usolve(U, b, j, x) ==
  IF j < 0 THEN [thrown |-> FALSE, x |-> x]
  ELSE IF b[j] # RZero
  THEN IF U[j][j] = RZero
       THEN [thrown |-> TRUE, x |-> x]
       ELSE LET xj == RDiv(b[j], U[j][j])
                b2 == [i \in DOMAIN b |-> IF i < j THEN RSub(b[i], RMul(xj, U[i][j])) ELSE b[i]]
            IN usolve(U, b2, j - 1, [x EXCEPT ![j] = (0 :> xj)])
  ELSE usolve(U, b, j - 1, [x EXCEPT ![j] = (0 :> RZero)])

\* [thrown, x]; x is the column vector V
lusolve(Gm, Iv, n) ==
  LET U == lup(augmented(Gm, Iv, n), 0, n)
  IN usolve(U, [i \in 0..(n - 1) |-> U[i][n]], n - 1, [i \in 0..(n - 1) |-> (0 :> RZero)])

\* variant of solveError: the voltages solved so far are returned with the error
solveErrorWithPartialData ==
  [nodeVoltages |-> ("partial" :> RZero), componentCurrents |-> EmptyMap,
   error |-> "Failed to solve circuit. Check for invalid configurations or isolated components."]

solveError ==
  [nodeVoltages |-> EmptyMap, componentCurrents |-> EmptyMap,
   error |-> "Failed to solve circuit. Check for invalid configurations or isolated components."]

----------------------------------------------------------------------------
(* Result composition (simulator.ts 270-304) *)

\* acc = [parent, currents]
RECURSIVE computeCurrents(_, _, _, _, _, _)
computeCurrents(acc, comps, i, gnd, idx, Vm) ==
  IF i > Len(comps) THEN acc
  ELSE LET comp == comps[i]
       IN IF comp.type = "resistor"
          THEN LET fA == find(acc.parent, terminalId(comp.id, 0))
                   fB == find(fA.parent, terminalId(comp.id, 1))
                   vA == IF fA.root = gnd THEN RZero ELSE Vm[idx[fA.root]][0]
                   vB == IF fB.root = gnd THEN RZero ELSE Vm[idx[fB.root]][0]
               IN computeCurrents(
                    [parent |-> fB.parent,
                     currents |-> (comp.id :> RDiv(RSub(vA, vB), RInt(comp.value)))
                                   @@ acc.currents],
                    comps, i + 1, gnd, idx, Vm)
          ELSE IF comp.type = "voltage"
          THEN computeCurrents([acc EXCEPT !.currents = (comp.id :> RZero) @@ acc.currents],
                               comps, i + 1, gnd, idx, Vm)
          ELSE computeCurrents(acc, comps, i + 1, gnd, idx, Vm)

\* variant of composeVoltages: the ground entry is left out
composeVoltagesWithoutGround(gnd, nodes, idx, Vm) ==
  [n \in {nodes[i] : i \in 1..Len(nodes)} |-> Vm[idx[n]][0]]

\* nodeVoltages[groundNode] = 0, then one entry per indexed node
composeVoltages(gnd, nodes, idx, Vm) ==
  [n \in {nodes[i] : i \in 1..Len(nodes)} |-> Vm[idx[n]][0]] @@ (gnd :> RZero)

\* variant of emptyResult: an empty circuit is reported as an error
emptyResultAsError ==
  [nodeVoltages |-> EmptyMap, componentCurrents |-> EmptyMap, error |-> "No components."]

emptyResult == [nodeVoltages |-> EmptyMap, componentCurrents |-> EmptyMap, error |-> NoError]

----------------------------------------------------------------------------------------------------------------------------------------
(* The variant without flattening (src/unnamed/part_000).  Its wires carry *)
(* the fields of src/models/types.ts.                                      *)

BasicWire(id, fromComponentId, fromNode, toComponentId, toNode) ==
  [id |-> id, fromComponentId |-> fromComponentId, fromNode |-> fromNode,
   toComponentId |-> toComponentId, toNode |-> toNode]

\* for (const wire of wires) uf.union(t1, t2)
RECURSIVE unionWiresBasic(_, _, _)
unionWiresBasic(par, ws, i) ==
  IF i > Len(ws) THEN par
  ELSE unionWiresBasic(
         union(par, terminalId(ws[i].fromComponentId, ws[i].fromNode),
                    terminalId(ws[i].toComponentId, ws[i].toNode)),
         ws, i + 1)

\* Map.set on an insertion-ordered Map [keys, get]
mapSet(m, key, v) ==
  [keys |-> IF key \in DOMAIN m.get THEN m.keys ELSE Append(m.keys, key),
   get |-> (key :> v) @@ m.get]

\* terminalToNode; acc = [parent, map]
RECURSIVE mapTerminals(_, _, _)
mapTerminals(acc, comps, i) ==
  IF i > Len(comps) THEN acc
  ELSE LET t0 == terminalId(comps[i].id, 0)
           t1 == terminalId(comps[i].id, 1)
           f0 == find(acc.parent, t0)
           f1 == find(f0.parent, t1)
       IN mapTerminals([parent |-> f1.parent,
                        map |-> mapSet(mapSet(acc.map, t0, f0.root), t1, f1.root)],
                       comps, i + 1)

\* Array.from(new Set(terminalToNode.values()))
RECURSIVE uniqueValues(_, _, _)
uniqueValues(m, i, acc) ==
  IF i > Len(m.keys) THEN acc
  ELSE uniqueValues(m, i + 1, SetAdd(acc, m.get[m.keys[i]]))

\* ground of the variant: the first source's terminal 0, else the first node
selectGroundBasic(t2n, nodes, comps) ==
  LET v == firstVoltageIndex(comps)
  IN IF v # 0 THEN t2n.get[terminalId(comps[v].id, 0)] ELSE nodes[1]

\* resistor loop body
stampResistorBasic(Gm, comp, t2n, idx) ==
  LET nodeA == t2n.get[terminalId(comp.id, 0)]
      nodeB == t2n.get[terminalId(comp.id, 1)]
      g == conductanceOf(comp)
      hasI == nodeA \in DOMAIN idx
      hasJ == nodeB \in DOMAIN idx
      G1 == IF hasI THEN Mset(Gm, idx[nodeA], idx[nodeA], RAdd(Mget(Gm, idx[nodeA], idx[nodeA]), g))
            ELSE Gm
      G2 == IF hasJ THEN Mset(G1, idx[nodeB], idx[nodeB], RAdd(Mget(G1, idx[nodeB], idx[nodeB]), g))
            ELSE G1
  IN IF hasI /\ hasJ
     THEN LET G3 == Mset(G2, idx[nodeA], idx[nodeB], RSub(Mget(G2, idx[nodeA], idx[nodeB]), g))
          IN Mset(G3, idx[nodeB], idx[nodeA], RSub(Mget(G3, idx[nodeB], idx[nodeA]), g))
     ELSE G2

RECURSIVE processResistors(_, _, _, _, _)
processResistors(Gm, comps, i, t2n, idx) ==
  IF i > Len(comps) THEN Gm
  ELSE processResistors(
         IF comps[i].type = "resistor" THEN stampResistorBasic(Gm, comps[i], t2n, idx) ELSE Gm,
         comps, i + 1, t2n, idx)

\* voltage source loop body; st = [G, I], I a vector
constrainSourceBasic(st, vsrc, t2n, gnd, idx, n) ==
  LET posNode == t2n.get[terminalId(vsrc.id, 1)]
      negNode == t2n.get[terminalId(vsrc.id, 0)]
  IN IF negNode = gnd
     THEN IF posNode \in DOMAIN idx
          THEN [G |-> identityRow(st.G, idx[posNode], n),
                I |-> [st.I EXCEPT ![idx[posNode]] = RInt(vsrc.value)]]
          ELSE st
     ELSE IF posNode = gnd
     THEN IF negNode \in DOMAIN idx
          THEN [G |-> identityRow(st.G, idx[negNode], n),
                I |-> [st.I EXCEPT ![idx[negNode]] = RNeg(RInt(vsrc.value))]]
          ELSE st
     ELSE st

RECURSIVE processSources(_, _, _, _, _, _, _)
processSources(st, comps, i, t2n, gnd, idx, n) ==
  IF i > Len(comps) THEN st
  ELSE processSources(
         IF comps[i].type = "voltage"
         THEN constrainSourceBasic(st, comps[i], t2n, gnd, idx, n) ELSE st,
         comps, i + 1, t2n, gnd, idx, n)

\* the vector I as the column lusolve works on
columnOf(Iv) == [i \in DOMAIN Iv |-> (0 :> Iv[i])]

RECURSIVE computeCurrentsBasic(_, _, _, _, _, _, _)
computeCurrentsBasic(acc, comps, i, t2n, gnd, idx, Vm) ==
  IF i > Len(comps) THEN acc
  ELSE LET comp == comps[i]
       IN IF comp.type = "resistor"
          THEN LET nodeA == t2n.get[terminalId(comp.id, 0)]
                   nodeB == t2n.get[terminalId(comp.id, 1)]
                   vA == IF nodeA = gnd THEN RZero ELSE Vm[idx[nodeA]][0]
                   vB == IF nodeB = gnd THEN RZero ELSE Vm[idx[nodeB]][0]
               IN computeCurrentsBasic(
                    (comp.id :> RDiv(RSub(vA, vB), RInt(comp.value))) @@ acc,
                    comps, i + 1, t2n, gnd, idx, Vm)
          ELSE IF comp.type = "voltage"
          THEN computeCurrentsBasic((comp.id :> RZero) @@ acc, comps, i + 1, t2n, gnd, idx, Vm)
          ELSE computeCurrentsBasic(acc, comps, i + 1, t2n, gnd, idx, Vm)

solveErrorBasic ==
  [nodeVoltages |-> EmptyMap, componentCurrents |-> EmptyMap,
   error |-> "Failed to solve circuit. Check for invalid configurations."]

\* the whole call, with the values of its locals at the return
runBasic(comps, ws) ==
  IF Len(comps) = 0
  THEN [result |-> emptyResult, parent |-> EmptyMap, groundNode |-> Null, nodes |-> <<>>,
        nodeIndexMap |-> EmptyMap, G |-> zeros(0, 0), I |-> zeros(0, 1), V |-> zeros(0, 1)]
  ELSE LET m == mapTerminals([parent |-> unionWiresBasic(EmptyMap, ws, 1),
                              map |-> [keys |-> <<>>, get |-> EmptyMap]], comps, 1)
           t2n == m.map
           unique == uniqueValues(t2n, 1, <<>>)
           gnd == selectGroundBasic(t2n, unique, comps)
           nodes == SetDelete(unique, gnd)
           idx == indexNodes(nodes)
           n == Len(nodes)
           G1 == processResistors(zeros(n, n), comps, 1, t2n, idx)
           st == processSources([G |-> G1, I |-> [i \in 0..(n - 1) |-> RZero]],
                                comps, 1, t2n, gnd, idx, n)
           s == lusolve(st.G, columnOf(st.I), n)
       IN [result |->
             IF s.thrown THEN solveErrorBasic
             ELSE [nodeVoltages |-> composeVoltages(gnd, nodes, idx, s.x),
                   componentCurrents |->
                     computeCurrentsBasic(EmptyMap, comps, 1, t2n, gnd, idx, s.x),
                   error |-> NoError],
           parent |-> m.parent, groundNode |-> gnd, nodes |-> nodes, nodeIndexMap |-> idx,
           G |-> st.G, I |-> columnOf(st.I), V |-> IF s.thrown THEN zeros(0, 1) ELSE s.x]

simulateCircuitBasic(comps, ws) == runBasic(comps, ws).result

\* a wire of src/types/types.ts in the fields of src/models/types.ts
toBasicWire(w) ==
  BasicWire(w.id, w.from.componentId, w.from.terminal, w.to.componentId, w.to.terminal)

----------------
(* Inputs of the explored calls *)

Circuit(comps, ws, subs) == [components |-> comps, wires |-> ws, subcircuits |-> subs]

\* what a slot of an enumerated component list can hold: type and value.
\* Resistances and source voltages include a negative value; 0 is left out
\* (1 / 0 is Infinity in the source, which the rationals do not have).
Palette ==
  {[type |-> "resistor", value |-> 2], [type |-> "resistor", value |-> -1],
   [type |-> "voltage", value |-> 1], [type |-> "voltage", value |-> 2],
   [type |-> "capacitor", value |-> 1]}

componentIdAt(i) == "c" \o ToString(i)

ComponentListsOf(palette) ==
  UNION {{[i \in 1..n |->
             CircuitComponent(componentIdAt(i), f[i].type, f[i].value, "", EmptyMap)] :
          f \in [1..n -> palette]} : n \in 0..MaxComps}

ComponentLists == ComponentListsOf(Palette)

\* the slots explored on the variant without flattening: a resistor, a
\* negative resistor and a source
BasicPalette ==
  {[type |-> "resistor", value |-> 2], [type |-> "resistor", value |-> -1],
   [type |-> "voltage", value |-> 1]}

BasicComponentLists == ComponentListsOf(BasicPalette)

\* the terminals a wire can name: 0 and 1 of the listed components (of a
\* component c1 when the list is empty), numbered 1..2n
terminalCount(comps) == 2 * (IF Len(comps) = 0 THEN 1 ELSE Len(comps))
endpointAt(t) == Endpoint(componentIdAt((t + 1) \div 2), (t + 1) % 2)

\* wire lists of at most MaxWires wires, each joining two different terminals;
\* one direction per pair and one order per set of pairs
WireLists(comps) ==
  LET pairs == {p \in (1..terminalCount(comps)) \X (1..terminalCount(comps)) : p[1] < p[2]}
      key(p) == p[1] * (terminalCount(comps) + 1) + p[2]
  IN UNION {{[i \in 1..n |-> Wire("w" \o ToString(i), endpointAt(f[i][1]), endpointAt(f[i][2]))] :
             f \in {g \in [1..n -> pairs] : \A i \in 1..(n - 1) : key(g[i]) < key(g[i + 1])}} :
            n \in 0..MaxWires}

\* a definition wrapping two resistors in series and the wire between them
SeriesDefinition(ra, rb) ==
  SubCircuit("D",
    <<CircuitComponent("r1", "resistor", ra, "", EmptyMap),
      CircuitComponent("r2", "resistor", rb, "", EmptyMap)>>,
    <<Wire("w2", Endpoint("r1", 1), Endpoint("r2", 0))>>,
    <<"in1", "in2">>, <<"out1">>)

\* source v across two resistors in series: v_0 - r1 - r2 - v_1
SeriesFlat(vs, ra, rb) ==
  Circuit(<<CircuitComponent("v", "voltage", vs, "", EmptyMap),
            CircuitComponent("r1", "resistor", ra, "", EmptyMap),
            CircuitComponent("r2", "resistor", rb, "", EmptyMap)>>,
          <<Wire("w1", Endpoint("v", 0), Endpoint("r1", 0)),
            Wire("w2", Endpoint("r1", 1), Endpoint("r2", 0)),
            Wire("w3", Endpoint("r2", 1), Endpoint("v", 1))>>,
          <<>>)

\* source v across two resistors in parallel: both between v_0 and v_1
ParallelFlat(vs, ra, rb) ==
  Circuit(<<CircuitComponent("v", "voltage", vs, "", EmptyMap),
            CircuitComponent("r1", "resistor", ra, "", EmptyMap),
            CircuitComponent("r2", "resistor", rb, "", EmptyMap)>>,
          <<Wire("w1", Endpoint("v", 0), Endpoint("r1", 0)),
            Wire("w2", Endpoint("v", 0), Endpoint("r2", 0)),
            Wire("w3", Endpoint("r1", 1), Endpoint("v", 1)),
            Wire("w4", Endpoint("r2", 1), Endpoint("v", 1))>>,
          <<>>)

\* the same circuit with the two resistors wrapped in instance s of the series
\* definition; the outer wires end on external terminals ta and tb of s
SeriesWrapped(vs, ra, rb, ta, tb, tmap) ==
  Circuit(<<CircuitComponent("v", "voltage", vs, "", EmptyMap),
            CircuitComponent("s", "subcircuit", 0, "D", tmap)>>,
          <<Wire("w1", Endpoint("v", 0), Endpoint("s", ta)),
            Wire("w3", Endpoint("s", tb), Endpoint("v", 1))>>,
          <<SeriesDefinition(ra, rb)>>)

\* terminalMap of a dropped instance (App.tsx handleDropComponent): every
\* input and output id mapped to the placeholder
placeholderTerminalMap(def) ==
  [t \in {def.inputs[i] : i \in 1..Len(def.inputs)}
         \cup {def.outputs[i] : i \in 1..Len(def.outputs)} |-> Endpoint("", 0)]

\* a terminalMap that names the internal terminals the outer wires stand for
resolvedTerminalMap ==
  ("in1" :> Endpoint("r1", 0)) @@ ("in2" :> Endpoint("r1", 0)) @@ ("out1" :> Endpoint("r2", 1))

ScenarioVolts == {2, 10}
ScenarioOhms == {1, 100}
ExternalTerminals == {0, 1, 2}

SeriesFlatCircuits ==
  {SeriesFlat(vs, ra, rb) : vs \in ScenarioVolts, ra \in ScenarioOhms, rb \in ScenarioOhms}

SeriesWrappedCircuits ==
  UNION {{SeriesWrapped(vs, ra, rb, t[1], t[2], tmap) :
            vs \in ScenarioVolts, ra \in ScenarioOhms, rb \in ScenarioOhms} :
         t \in {u \in ExternalTerminals \X ExternalTerminals : u[1] # u[2]},
         tmap \in {EmptyMap, placeholderTerminalMap(SeriesDefinition(1, 1)),
                   resolvedTerminalMap}}

\* an instance of the definition with id sid, as handleDropComponent would
\* place it but without a terminalMap
InstanceOf(id, sid) == CircuitComponent(id, "subcircuit", 0, sid, EmptyMap)

ScenarioResistor(id) == CircuitComponent(id, "resistor", 100, "", EmptyMap)
ScenarioSource(id) == CircuitComponent(id, "voltage", 10, "", EmptyMap)

\* a definition whose internal components hold an instance of the series definition
NestedDefinition ==
  SubCircuit("N", <<ScenarioResistor("r0"), InstanceOf("i", "D")>>,
             <<Wire("w4", Endpoint("r0", 1), Endpoint("i", 0))>>, <<"in1">>, <<"out1">>)

\* a definition holding an instance of itself
LoopDefinition ==
  SubCircuit("L", <<ScenarioResistor("r0"), InstanceOf("x", "L")>>,
             <<Wire("w4", Endpoint("r0", 1), Endpoint("x", 0))>>, <<"in1">>, <<"out1">>)

\* two definitions holding an instance of each other
MutualDefinitionA ==
  SubCircuit("A", <<InstanceOf("b", "B")>>, <<>>, <<"in1">>, <<"out1">>)
MutualDefinitionB ==
  SubCircuit("B", <<ScenarioResistor("r0"), InstanceOf("a", "A")>>,
             <<Wire("w4", Endpoint("r0", 1), Endpoint("a", 0))>>, <<"in1">>, <<"out1">>)

Libraries ==
  {<<>>, <<SeriesDefinition(100, 100)>>, <<NestedDefinition, SeriesDefinition(100, 100)>>,
   <<LoopDefinition>>, <<MutualDefinitionA, MutualDefinitionB>>}

\* the ids an instance can name: the definitions above, an id of no library
\* ("M") and no id at all
DefinitionIds == {"D", "N", "L", "A", "M", ""}

\* source v wired across instance s, for every definition id and library;
\* an id the library does not hold is a missing definition
InstanceCircuits ==
  {Circuit(<<ScenarioSource("v"), InstanceOf("s", sid)>>,
           <<Wire("w1", Endpoint("v", 0), Endpoint("s", 0)),
             Wire("w3", Endpoint("s", 1), Endpoint("v", 1))>>,
           lib) : sid \in DefinitionIds, lib \in Libraries}

\* instance s beside a second top-level component: another instance of the
\* same definition, or a resistor whose id is s_r1 or r1
SiblingCircuits ==
  {Circuit(<<InstanceOf("s", "D"), other, ScenarioSource("v")>>,
           <<Wire("w1", Endpoint("v", 0), Endpoint(other.id, 0))>>,
           <<SeriesDefinition(100, 100)>>) :
     other \in {InstanceOf("t", "D"), ScenarioResistor("s_r1"), ScenarioResistor("r1")}}

\* the orders a list of three components can be given in
Orders == {<<1, 2, 3>>, <<1, 3, 2>>, <<2, 1, 3>>, <<2, 3, 1>>, <<3, 1, 2>>, <<3, 2, 1>>}

\* circuit c with its three components listed in order o
Reordered(c, o) == Circuit([i \in 1..3 |-> c.components[o[i]]], c.wires, c.subcircuits)

\* the series and the parallel circuit of a 10 V source and two 100 ohm
\* resistors, under every order of the component list
OrderedCircuits ==
  {Reordered(c, o) : c \in {SeriesFlat(10, 100, 100), ParallelFlat(10, 100, 100)}, o \in Orders}

toBasicWires(ws) == [i \in 1..Len(ws) |-> toBasicWire(ws[i])]

BasicWireLists(comps) == {toBasicWires(ws) : ws \in WireLists(comps)}

\* no component, with or without wires and library
EmptyCircuits ==
  {Circuit(<<>>, w, lib) : w \in WireLists(<<>>), lib \in {<<>>, <<SeriesDefinition(1, 1)>>}}

ScenarioCircuits ==
  EmptyCircuits \cup SeriesFlatCircuits \cup SeriesWrappedCircuits
    \cup InstanceCircuits \cup SiblingCircuits \cup OrderedCircuits

----------------
(* simulateCircuit as a state machine *)

\* the solver is called without an editor
NoEditor == app = Unmounted /\ canvas = Unmounted /\ clock = 0

Init ==
  /\ \/ /\ variant = "simulator"
        /\ \/ /\ components \in ComponentLists
              /\ wires \in WireLists(components)
              /\ subcircuits = <<>>
           \/ \E c \in ScenarioCircuits :
                /\ components = c.components
                /\ wires = c.wires
                /\ subcircuits = c.subcircuits
     \/ /\ variant = "basic"
        /\ subcircuits = <<>>
        /\ \/ /\ components \in BasicComponentLists
              /\ wires \in BasicWireLists(components)
           \/ \E c \in SeriesFlatCircuits \cup OrderedCircuits :
                /\ components = c.components
                /\ wires = toBasicWires(c.wires)
  /\ pc = "start"
  /\ expandedComponents = <<>>
  /\ expandedWires = <<>>
  /\ subcircuitTerminalToGlobalTerminalMap = EmptyMap
  /\ parent = EmptyMap
  /\ groundNode = Null
  /\ uniqueNodes = <<>>
  /\ nodeIndexMap = EmptyMap
  /\ matrixSize = 0
  /\ G = zeros(0, 0)
  /\ I = zeros(0, 1)
  /\ k = 0
  /\ floatingReturn = NoResult
  /\ V = zeros(0, 1)
  /\ result = NoResult
  /\ returned = <<>>
  /\ NoEditor

inputsUnchanged ==
  UNCHANGED <<variant, components, wires, subcircuits, returned, app, canvas, clock>>

\* simulator.ts 26-110
Flatten ==
  /\ variant = "simulator"
  /\ pc = "start"
  /\ IF Len(components) = 0
     THEN /\ result' = emptyResult
          /\ pc' = "done"
          /\ UNCHANGED <<expandedComponents, expandedWires,
                         subcircuitTerminalToGlobalTerminalMap>>
     ELSE LET f == flatten(components, wires, subcircuits)
          IN /\ expandedComponents' = f.comps
             /\ expandedWires' = f.wires
             /\ subcircuitTerminalToGlobalTerminalMap' = f.tmap
             /\ pc' = "flattened"
             /\ UNCHANGED result
  /\ inputsUnchanged
  /\ UNCHANGED <<parent, groundNode, uniqueNodes, nodeIndexMap, matrixSize, G, I, k,
                 floatingReturn, V>>

\* simulator.ts 137-149
IdentifyNodes ==
  /\ pc = "flattened"
  /\ parent' = unionWires(establishTerminals(parent, expandedComponents, 1),
                          expandedWires, 1)
  /\ pc' = "nodes"
  /\ inputsUnchanged
  /\ UNCHANGED <<expandedComponents, expandedWires, subcircuitTerminalToGlobalTerminalMap,
                 groundNode, uniqueNodes, nodeIndexMap, matrixSize, G, I, k,
                 floatingReturn, V, result>>

\* simulator.ts 151-165
SelectGround ==
  /\ pc = "nodes"
  /\ IF Len(expandedComponents) > 0
     THEN LET g == selectGround(parent, expandedComponents)
          IN /\ groundNode' = g.root
             /\ parent' = g.parent
             /\ pc' = "ground"
             /\ UNCHANGED result
     ELSE /\ result' = emptyResult
          /\ pc' = "done"
          /\ UNCHANGED <<groundNode, parent>>
  /\ inputsUnchanged
  /\ UNCHANGED <<expandedComponents, expandedWires, subcircuitTerminalToGlobalTerminalMap,
                 uniqueNodes, nodeIndexMap, matrixSize, G, I, k, floatingReturn, V>>

\* simulator.ts 168-188
IndexNodes ==
  /\ pc = "ground"
  /\ LET c == collectUniqueNodes([parent |-> parent, nodes |-> <<>>], expandedComponents, 1)
         nodes == SetDelete(c.nodes, groundNode)
     IN /\ parent' = c.parent
        /\ uniqueNodes' = nodes
        /\ nodeIndexMap' = indexNodes(nodes)
        /\ matrixSize' = Len(nodes)
        /\ G' = zeros(Len(nodes), Len(nodes))
        /\ I' = zeros(Len(nodes), 1)
  /\ k' = 1
  /\ pc' = "assemble"
  /\ inputsUnchanged
  /\ UNCHANGED <<expandedComponents, expandedWires, subcircuitTerminalToGlobalTerminalMap,
                 groundNode, floatingReturn, V, result>>

\* simulator.ts 191-253: one call of the forEach callback; its return value is dropped
AssembleStep ==
  /\ pc = "assemble"
  /\ k <= Len(expandedComponents)
  /\ LET st == assembleComponent([parent |-> parent, G |-> G, I |-> I, returned |-> NoResult],
                                 expandedComponents[k], groundNode, nodeIndexMap, matrixSize)
     IN /\ parent' = st.parent
        /\ G' = st.G
        /\ I' = st.I
        /\ floatingReturn' = st.returned
  /\ k' = k + 1
  /\ inputsUnchanged
  /\ UNCHANGED <<pc, expandedComponents, expandedWires, subcircuitTerminalToGlobalTerminalMap,
                 groundNode, uniqueNodes, nodeIndexMap, matrixSize, V, result>>

\* simulator.ts 255-268
Solve ==
  /\ pc = "assemble"
  /\ k > Len(expandedComponents)
  /\ LET s == lusolve(G, I, matrixSize)
     IN IF s.thrown
        THEN /\ result' = solveError
             /\ pc' = "done"
             /\ UNCHANGED V
        ELSE /\ V' = s.x
             /\ pc' = "solved"
             /\ UNCHANGED result
  /\ inputsUnchanged
  /\ UNCHANGED <<expandedComponents, expandedWires, subcircuitTerminalToGlobalTerminalMap,
                 parent, groundNode, uniqueNodes, nodeIndexMap, matrixSize, G, I, k,
                 floatingReturn>>

\* simulator.ts 270-304
Compose ==
  /\ pc = "solved"
  /\ LET c == computeCurrents([parent |-> parent, currents |-> EmptyMap],
                              expandedComponents, 1, groundNode, nodeIndexMap, V)
     IN /\ parent' = c.parent
        /\ result' = [nodeVoltages |-> composeVoltages(groundNode, uniqueNodes, nodeIndexMap, V),
                      componentCurrents |-> c.currents,
                      error |-> NoError]
  /\ pc' = "done"
  /\ inputsUnchanged
  /\ UNCHANGED <<expandedComponents, expandedWires, subcircuitTerminalToGlobalTerminalMap,
                 groundNode, uniqueNodes, nodeIndexMap, matrixSize, G, I, k,
                 floatingReturn, V>>

\* part_000 6-162: the whole call of the variant without flattening
SimulateBasic ==
  /\ variant = "basic"
  /\ pc = "start"
  /\ \E r \in {runBasic(components, wires)} :
        /\ parent' = r.parent
        /\ groundNode' = r.groundNode
        /\ uniqueNodes' = r.nodes
        /\ nodeIndexMap' = r.nodeIndexMap
        /\ matrixSize' = Len(r.nodes)
        /\ G' = r.G
        /\ I' = r.I
        /\ V' = r.V
        /\ result' = r.result
  /\ pc' = "done"
  /\ inputsUnchanged
  /\ UNCHANGED <<expandedComponents, expandedWires, subcircuitTerminalToGlobalTerminalMap,
                 k, floatingReturn>>

Next ==
  \/ SimulateBasic
  \/ Flatten
  \/ IdentifyNodes
  \/ SelectGround
  \/ IndexNodes
  \/ AssembleStep
  \/ Solve
  \/ Compose

Spec == Init /\ [][Next]_vars

----------------------------------------------------------------------------
(* A caller that calls simulateCircuit again after each return *)

\* the argument lists the caller chooses from, with the function it calls
CallArguments ==
  {[variant |-> "simulator", circuit |-> c] :
     c \in {SeriesFlat(10, 100, 100), ParallelFlat(10, 100, 100),
            SeriesWrapped(10, 100, 100, 0, 1, EmptyMap), Circuit(<<>>, <<>>, <<>>)}}
  \cup
  {[variant |-> "basic",
    circuit |-> Circuit(c.components, toBasicWires(c.wires), <<>>)] :
     c \in {SeriesFlat(10, 100, 100), ParallelFlat(10, 100, 100)}}

currentArguments ==
  [variant |-> variant, circuit |-> Circuit(components, wires, subcircuits)]

InitCalls ==
  /\ \E a \in CallArguments :
       /\ variant = a.variant
       /\ components = a.circuit.components
       /\ wires = a.circuit.wires
       /\ subcircuits = a.circuit.subcircuits
  /\ pc = "start"
  /\ expandedComponents = <<>>
  /\ expandedWires = <<>>
  /\ subcircuitTerminalToGlobalTerminalMap = EmptyMap
  /\ parent = EmptyMap
  /\ groundNode = Null
  /\ uniqueNodes = <<>>
  /\ nodeIndexMap = EmptyMap
  /\ matrixSize = 0
  /\ G = zeros(0, 0)
  /\ I = zeros(0, 1)
  /\ k = 0
  /\ floatingReturn = NoResult
  /\ V = zeros(0, 1)
  /\ result = NoResult
  /\ returned = <<>>
  /\ NoEditor

\* the caller keeps the returned value and calls again: a new activation of
\* simulateCircuit, whose locals are the ones its declarations create
newActivation ==
  /\ pc' = "start"
  /\ expandedComponents' = <<>>
  /\ expandedWires' = <<>>
  /\ subcircuitTerminalToGlobalTerminalMap' = EmptyMap
  /\ parent' = newUnionFind
  /\ groundNode' = Null
  /\ uniqueNodes' = <<>>
  /\ nodeIndexMap' = EmptyMap
  /\ matrixSize' = 0
  /\ G' = zeros(0, 0)
  /\ I' = zeros(0, 1)
  /\ k' = 0
  /\ floatingReturn' = NoResult
  /\ V' = zeros(0, 1)
  /\ result' = NoResult

Call ==
  /\ pc = "done"
  /\ Len(returned) + 1 < MaxCalls
  /\ returned' = Append(returned, [arguments |-> currentArguments, result |-> result])
  /\ \E a \in CallArguments :
       /\ variant' = a.variant
       /\ components' = a.circuit.components
       /\ wires' = a.circuit.wires
       /\ subcircuits' = a.circuit.subcircuits
  /\ newActivation
  /\ UNCHANGED <<app, canvas, clock>>

NextCalls ==
  \/ SimulateBasic
  \/ Flatten
  \/ IdentifyNodes
  \/ SelectGround
  \/ IndexNodes
  \/ AssembleStep
  \/ Solve
  \/ Compose
  \/ Call

SpecCalls == InitCalls /\ [][NextCalls]_vars

----------------------------------------------------------------------------
(* A caller that solves a circuit, adds one component of a kind the solver *)
(* does not stamp, and solves again                                        *)

\* the kinds other than resistor, voltage and subcircuit (types.ts 2,
\* models/types.ts 1-9) the added component is taken from
AddedKinds == {"capacitor", "logic-gate"}

AddedComponent(kind) == CircuitComponent("x", kind, 1, "", EmptyMap)

\* the slots of the two-component circuits the component is added to
FramePalette ==
  {[type |-> "resistor", value |-> 2], [type |-> "resistor", value |-> -1],
   [type |-> "voltage", value |-> 1], [type |-> "capacitor", value |-> 1]}

\* every list of two components of the palette
PairCircuits(palette) ==
  {[components |-> <<CircuitComponent("c1", a.type, a.value, "", EmptyMap),
                     CircuitComponent("c2", b.type, b.value, "", EmptyMap)>>] :
     a \in palette, b \in palette}

FrameScenarios ==
  {SeriesFlat(10, 100, 100), ParallelFlat(10, 100, 100),
   SeriesWrapped(10, 100, 100, 0, 1, EmptyMap)} \cup SiblingCircuits

\* the terminals an added wire can end on: 0 and 1 of the top-level components
topTerminals(comps) == {Endpoint(comps[i].id, t) : i \in 1..Len(comps), t \in {0, 1}}

\* the wires added with the component: none, one from its terminal 0, one to
\* its terminal 1, or both
AddedWireLists(comps) ==
  {<<>>}
  \cup {<<Wire("wx0", Endpoint("x", 0), t)>> : t \in topTerminals(comps)}
  \cup {<<Wire("wx1", t, Endpoint("x", 1))>> : t \in topTerminals(comps)}
  \cup {<<Wire("wx0", Endpoint("x", 0), p[1]), Wire("wx1", p[2], Endpoint("x", 1))>> :
         p \in {q \in topTerminals(comps) \X topTerminals(comps) : q[1] # q[2]}}

insertAt(seq, pos, e) == SubSeq(seq, 1, pos) \o <<e>> \o SubSeq(seq, pos + 1, Len(seq))

InitFrame ==
  /\ \/ /\ variant = "simulator"
        /\ \/ /\ \E c \in PairCircuits(FramePalette) : components = c.components
              /\ wires \in WireLists(components)
              /\ subcircuits = <<>>
           \/ \E c \in FrameScenarios :
                /\ components = c.components
                /\ wires = c.wires
                /\ subcircuits = c.subcircuits
     \/ /\ variant = "basic"
        /\ subcircuits = <<>>
        /\ \/ /\ \E c \in PairCircuits(BasicPalette) : components = c.components
              /\ wires \in BasicWireLists(components)
           \/ \E c \in {SeriesFlat(10, 100, 100), ParallelFlat(10, 100, 100)} :
                /\ components = c.components
                /\ wires = toBasicWires(c.wires)
  /\ pc = "start"
  /\ expandedComponents = <<>>
  /\ expandedWires = <<>>
  /\ subcircuitTerminalToGlobalTerminalMap = EmptyMap
  /\ parent = EmptyMap
  /\ groundNode = Null
  /\ uniqueNodes = <<>>
  /\ nodeIndexMap = EmptyMap
  /\ matrixSize = 0
  /\ G = zeros(0, 0)
  /\ I = zeros(0, 1)
  /\ k = 0
  /\ floatingReturn = NoResult
  /\ V = zeros(0, 1)
  /\ result = NoResult
  /\ returned = <<>>
  /\ NoEditor

\* after the first return: the same circuit with one more component, at the
\* front or at the end of the list, and the wires added with it
CallWithAddedComponent ==
  /\ pc = "done"
  /\ returned = <<>>
  /\ returned' = <<[arguments |-> currentArguments, result |-> result]>>
  /\ \E kind \in AddedKinds, pos \in {0, Len(components)}, ws \in AddedWireLists(components) :
       /\ components' = insertAt(components, pos, AddedComponent(kind))
       /\ wires' = wires \o (IF variant = "basic" THEN toBasicWires(ws) ELSE ws)
  /\ UNCHANGED <<variant, subcircuits, app, canvas, clock>>
  /\ newActivation

NextFrame ==
  \/ SimulateBasic
  \/ Flatten
  \/ IdentifyNodes
  \/ SelectGround
  \/ IndexNodes
  \/ AssembleStep
  \/ Solve
  \/ Compose
  \/ CallWithAddedComponent

SpecFrame == InitFrame /\ [][NextFrame]_vars

----------------------------------------------------------------------------------------------------------------------------------------
(* simulateCircuit as one function of its arguments, built from the same   *)
(* stages; used where a claim relates the results of two calls.            *)

RECURSIVE assembleFrom(_, _, _, _, _, _)
assembleFrom(st, comps, i, gnd, idx, n) ==
  IF i > Len(comps) THEN st
  ELSE assembleFrom(assembleComponent(st, comps[i], gnd, idx, n), comps, i + 1, gnd, idx, n)

simulateCircuit(comps, ws, subs) ==
  IF Len(comps) = 0 THEN emptyResult
  ELSE LET f == flatten(comps, ws, subs)
           p0 == unionWires(establishTerminals(EmptyMap, f.comps, 1), f.wires, 1)
       IN IF Len(f.comps) = 0 THEN emptyResult
          ELSE LET g == selectGround(p0, f.comps)
                   c == collectUniqueNodes([parent |-> g.parent, nodes |-> <<>>], f.comps, 1)
                   nodes == SetDelete(c.nodes, g.root)
                   idx == indexNodes(nodes)
                   n == Len(nodes)
                   a == assembleFrom([parent |-> c.parent, G |-> zeros(n, n),
                                      I |-> zeros(n, 1), returned |-> NoResult],
                                     f.comps, 1, g.root, idx, n)
                   s == lusolve(a.G, a.I, n)
               IN IF s.thrown THEN solveError
                  ELSE [nodeVoltages |-> composeVoltages(g.root, nodes, idx, s.x),
                        componentCurrents |->
                          computeCurrents([parent |-> a.parent, currents |-> EmptyMap],
                                          f.comps, 1, g.root, idx, s.x).currents,
                        error |-> NoError]

\* the stepwise run returns what the function returns
StepsComputeSimulateCircuit ==
  (pc = "done" /\ variant = "simulator") =>
    result = simulateCircuit(components, wires, subcircuits)

----------------------------------------------------------------------------
(* Vocabulary of the properties *)

Returned == pc = "done"
IsError(r) == r.error # NoError
IsSuccess(r) == r.error = NoError

\* ground has been selected in the current call
GroundSelected == groundNode # Null

\* the component list the solve works on: the flattened list, or the argument
\* of the variant without flattening
solvedComponents == IF variant = "basic" THEN components ELSE expandedComponents

\* the pairs of terminals joined by the wires the solve works on
joinedTerminals ==
  IF variant = "basic"
  THEN {<<terminalId(wires[i].fromComponentId, wires[i].fromNode),
          terminalId(wires[i].toComponentId, wires[i].toNode)>> : i \in 1..Len(wires)}
  ELSE {<<terminalId(expandedWires[i].from.componentId, expandedWires[i].from.terminal),
          terminalId(expandedWires[i].to.componentId, expandedWires[i].to.terminal)>> :
        i \in 1..Len(expandedWires)}

flatIndices == 1..Len(solvedComponents)

\* terminals joined to a terminal of S by one wire
wireNeighbours(S) ==
  S \cup {j[2] : j \in {x \in joinedTerminals : x[1] \in S}}
    \cup {j[1] : j \in {x \in joinedTerminals : x[2] \in S}}

RECURSIVE wireClosure(_)
wireClosure(S) == IF wireNeighbours(S) = S THEN S ELSE wireClosure(wireNeighbours(S))

\* the electrical node (set of terminals linked by chains of wires) containing terminal t
electricalNode(t) == wireClosure({t})

\* the electrical node that was chosen as ground
groundClass == electricalNode(groundNode)

inGround(i, t) == terminalId(solvedComponents[i].id, t) \in groundClass

\* the electrical nodes of the flattened components' terminals
allNodes == {electricalNode(terminalId(solvedComponents[i].id, t)) : i \in flatIndices, t \in {0, 1}}

isType(i, t) == solvedComponents[i].type = t

\* component i is the first voltage source of the flattened list
isFirstSource(i) == isType(i, "voltage") /\ \A j \in 1..(i - 1) : ~isType(j, "voltage")

\* a voltage source with neither terminal in the ground node
isFloatingSource(i) == isType(i, "voltage") /\ ~inGround(i, 0) /\ ~inGround(i, 1)

\* a voltage source with exactly one terminal in the ground node
isGroundedSource(i) == isType(i, "voltage") /\ (inGround(i, 0) # inGround(i, 1))

\* the terminal of a grounded source that is not in the ground node
freeTerminal(i) ==
  terminalId(solvedComponents[i].id, IF inGround(i, 0) THEN 1 ELSE 0)

\* components through which a node can reach ground
conducts(i) ==
  isType(i, "resistor") \/ (isType(i, "voltage") /\ (inGround(i, 0) \/ inGround(i, 1)))

\* terminals reached from the terminals S through one conducting component
conductingNeighbours(S) ==
  S \cup UNION {electricalNode(terminalId(solvedComponents[i].id, 0))
                  \cup electricalNode(terminalId(solvedComponents[i].id, 1)) :
                i \in {j \in flatIndices :
                         /\ conducts(j)
                         /\ \/ terminalId(solvedComponents[j].id, 0) \in S
                            \/ terminalId(solvedComponents[j].id, 1) \in S}}

RECURSIVE conductingClosure(_)
conductingClosure(S) ==
  IF conductingNeighbours(S) = S THEN S ELSE conductingClosure(conductingNeighbours(S))

\* the terminals with a conducting path to ground
groundReach == conductingClosure(groundClass)

----------------------------------------------------------------------------
(* C1: a returned result that carries an error string has empty            *)
(* nodeVoltages and empty componentCurrents: never both data and an error. *)
C1_ErrorResultIsEmpty ==
  (Returned /\ IsError(result)) =>
    /\ DOMAIN result.nodeVoltages = {}
    /\ DOMAIN result.componentCurrents = {}

\* a call on a non-empty circuit has returned the error variant
C1_Witness == Returned /\ IsError(result) /\ Len(solvedComponents) > 0

(* C2: if a voltage source of the flattened circuit has neither terminal   *)
(* in the ground node, simulateCircuit returns the error variant.          *)
C2_FloatingSourceRejected ==
  (Returned /\ \E i \in flatIndices : isFloatingSource(i)) => IsError(result)

(* C3: with zero components the call returns a success whose nodeVoltages  *)
(* and componentCurrents are empty, whatever the wires and the library.    *)
C3_EmptyCircuitSucceeds ==
  (Returned /\ Len(components) = 0) =>
    /\ IsSuccess(result)
    /\ DOMAIN result.nodeVoltages = {}
    /\ DOMAIN result.componentCurrents = {}

\* an empty component list with a wire and a library entry has been solved
C3_Witness == Returned /\ Len(components) = 0 /\ Len(wires) > 0 /\ Len(subcircuits) > 0

(* C4: in every success for a circuit with at least one flattened          *)
(* component, exactly one electrical node is ground: its id is a key of    *)
(* nodeVoltages with value exactly 0, it has no matrix index, and every    *)
(* other node is a matrix unknown and a key of nodeVoltages.               *)
C4_GroundInvariant ==
  (Returned /\ IsSuccess(result) /\ Len(solvedComponents) >= 1) =>
    \E nodes \in {allNodes} :
      /\ groundNode \in DOMAIN result.nodeVoltages
      /\ result.nodeVoltages[groundNode] = RZero
      /\ groundNode \notin DOMAIN nodeIndexMap
      /\ Cardinality({n \in nodes : groundNode \in n}) = 1
      /\ Cardinality(DOMAIN nodeIndexMap) = Cardinality(nodes) - 1
      /\ Cardinality(DOMAIN result.nodeVoltages) = Cardinality(nodes)

\* a success with a ground node and at least one other node at a non-zero voltage
C4_Witness ==
  /\ Returned /\ IsSuccess(result) /\ Len(solvedComponents) >= 1
  /\ \E n \in DOMAIN result.nodeVoltages : result.nodeVoltages[n] # RZero

C6_GroundFallbackIsFirstTerminal0 ==
  (GroundSelected /\ \A i \in flatIndices : ~isType(i, "voltage")) => inGround(1, 0)

\* no source, two components, and the other three terminals are outside ground
C6_Witness ==
  /\ Returned /\ GroundSelected /\ Len(solvedComponents) >= 2
  /\ \A i \in flatIndices : ~isType(i, "voltage")
  /\ ~inGround(1, 1) /\ ~inGround(2, 0) /\ ~inGround(2, 1)

(* C7: if a resistor of the flattened circuit has value <= 0,              *)
(* simulateCircuit returns the error variant.                              *)
C7_NonPositiveResistorRejected ==
  (Returned /\ \E i \in flatIndices :
                 isType(i, "resistor") /\ solvedComponents[i].value <= 0)
    => IsError(result)

(* C8: if two grounded voltage sources have their non-ground terminals in  *)
(* the same electrical node, simulateCircuit returns the error variant.    *)
C8_ConflictingSourcesRejected ==
  (Returned /\ \E i, j \in flatIndices :
                 /\ i < j /\ isGroundedSource(i) /\ isGroundedSource(j)
                 /\ freeTerminal(j) \in electricalNode(freeTerminal(i)))
    => IsError(result)

(* C9: if a non-ground node of the flattened circuit has no conducting     *)
(* path (through resistors or a grounded voltage source) to ground,        *)
(* simulateCircuit returns the error variant.                              *)
C9_IslandRejected ==
  (Returned /\ \E i \in flatIndices, t \in {0, 1} :
                 terminalId(solvedComponents[i].id, t) \notin groundReach)
    => IsError(result)

\* the call is on a series circuit whose two resistors are wrapped in an instance
isSeriesWrapped(vs, ra, rb) ==
  variant = "simulator" /\ \E ta \in ExternalTerminals, tb \in ExternalTerminals :
    \E tmap \in {components[i].terminalMap : i \in 1..Len(components)} :
      Circuit(components, wires, subcircuits) = SeriesWrapped(vs, ra, rb, ta, tb, tmap)

\* result r of the wrapped circuit equals result e of the flat one up to the
\* naming of nodes and with r1, r2 renamed to s_r1, s_r2
sameUpToRenaming(r, e) ==
  /\ r.error = e.error
  /\ \E f \in [DOMAIN r.nodeVoltages -> DOMAIN e.nodeVoltages] :
       /\ \A n, m \in DOMAIN r.nodeVoltages : f[n] = f[m] => n = m
       /\ \A x \in DOMAIN e.nodeVoltages : \E n \in DOMAIN r.nodeVoltages : f[n] = x
       /\ \A n \in DOMAIN r.nodeVoltages : e.nodeVoltages[f[n]] = r.nodeVoltages[n]
  /\ \A id \in {"r1", "r2"} :
       id \in DOMAIN e.componentCurrents =>
         /\ ("s_" \o id) \in DOMAIN r.componentCurrents
         /\ r.componentCurrents["s_" \o id] = e.componentCurrents[id]

(* C10: a series circuit whose two resistors are replaced by an instance   *)
(* of a definition wrapping them and the wire between them, with the outer *)
(* wires on the instance's external terminals, returns the node voltages   *)
(* and resistor currents of the flat circuit, up to renaming.              *)
C10_SubcircuitTransparency ==
  Returned =>
    \A vs \in ScenarioVolts, ra \in ScenarioOhms, rb \in ScenarioOhms :
      isSeriesWrapped(vs, ra, rb) =>
        LET flat == SeriesFlat(vs, ra, rb)
        IN sameUpToRenaming(result,
                            simulateCircuit(flat.components, flat.wires, flat.subcircuits))

----------------------------------------------------------------------------
(* Vocabulary of the flattening properties *)

\* Step 1 of the current call has run on a non-empty component list
Flattened == variant = "simulator" /\ pc # "start" /\ Len(components) > 0

topIndices == 1..Len(components)

\* component c takes the instance branch of the flattening (simulator.ts 44)
isInstance(c) == c.type = "subcircuit" /\ c.subcircuitId # ""

\* top-level component i is an instance whose definition the library lacks
isMissingInstance(i) ==
  isInstance(components[i]) /\ subcircuitDefIndex(subcircuits, components[i].subcircuitId) = 0

\* the definition ids instantiated inside the definitions with an id in S
containedDefinitions(S) ==
  UNION {{subcircuits[d].internalComponents[j].subcircuitId :
            j \in {x \in 1..Len(subcircuits[d].internalComponents) :
                     isInstance(subcircuits[d].internalComponents[x])}} :
         d \in {x \in 1..Len(subcircuits) :
                  /\ subcircuits[x].id \in S
                  /\ subcircuitDefIndex(subcircuits, subcircuits[x].id) = x}}

RECURSIVE containedClosure(_)
containedClosure(S) ==
  IF containedDefinitions(S) \subseteq S THEN S
  ELSE containedClosure(S \cup containedDefinitions(S))

\* definition sid contains, directly or transitively, an instance of itself
isCircular(sid) ==
  /\ subcircuitDefIndex(subcircuits, sid) # 0
  /\ sid \in containedClosure(containedDefinitions({sid}))

\* top-level component i instantiates a definition that is circular or
\* reaches a circular one
instantiatesCircular(i) ==
  /\ isInstance(components[i])
  /\ \E sid \in containedClosure({components[i].subcircuitId}) : isCircular(sid)

pairwiseDistinctIds(comps) ==
  \A i, j \in 1..Len(comps) : comps[i].id = comps[j].id => i = j

(* C11: when a top-level instance names a definition id the library does   *)
(* not hold, the flattened circuit contains neither a component with the   *)
(* instance's id nor a wire with the instance as an endpoint.              *)
C11_MissingInstanceDropped ==
  Flattened =>
    \A i \in topIndices :
      isMissingInstance(i) =>
        /\ \A j \in 1..Len(expandedComponents) : expandedComponents[j].id # components[i].id
        /\ \A j \in 1..Len(expandedWires) :
             /\ expandedWires[j].from.componentId # components[i].id
             /\ expandedWires[j].to.componentId # components[i].id

(* C12: a circuit that instantiates a definition containing, directly or   *)
(* transitively, an instance of itself makes simulateCircuit return the    *)
(* error variant.                                                          *)
C12_CircularReferenceRejected ==
  (Returned /\ variant = "simulator" /\ \E i \in topIndices : instantiatesCircular(i))
    => IsError(result)

(* C13: after flattening no component of the flattened list has type       *)
(* subcircuit, nested definitions included.                                *)
C13_NoSubcircuitAfterFlatten ==
  Flattened => \A j \in 1..Len(expandedComponents) : expandedComponents[j].type # "subcircuit"

(* C14: if the top-level ids are pairwise distinct and the internal ids of *)
(* every definition are pairwise distinct, the ids of the flattened        *)
(* components are pairwise distinct.                                       *)
C14_FlattenedIdsDistinct ==
  (/\ Flattened
   /\ pairwiseDistinctIds(components)
   /\ \A d \in 1..Len(subcircuits) : pairwiseDistinctIds(subcircuits[d].internalComponents))
    => pairwiseDistinctIds(expandedComponents)

----------------------------------------------------------------------------
\* the calls that have returned so far, the current one included
completedCalls ==
  IF Returned
  THEN Append(returned, [arguments |-> currentArguments, result |-> result])
  ELSE returned

(* C15: two calls of simulateCircuit with equal components, wires and      *)
(* library return equal results, whatever calls were made before or        *)
(* between them.                                                           *)
C15_Deterministic ==
  \A i, j \in 1..Len(completedCalls) :
    completedCalls[i].arguments = completedCalls[j].arguments
      => completedCalls[i].result = completedCalls[j].result

\* the same non-empty circuit has been solved twice, with a call on the same
\* components under other wires between the two
C15_Witness ==
  \E i, j, m \in 1..Len(completedCalls) :
    /\ i < j /\ j < m
    /\ completedCalls[i].arguments = completedCalls[m].arguments
    /\ completedCalls[j].arguments.variant = completedCalls[i].arguments.variant
    /\ completedCalls[j].arguments.circuit.components
         = completedCalls[i].arguments.circuit.components
    /\ completedCalls[j].arguments.circuit.wires # completedCalls[i].arguments.circuit.wires
    /\ DOMAIN completedCalls[i].result.nodeVoltages # {}

----------------------------------------------------------------------------
(* Vocabulary of the frame property *)

\* the components and the joined terminal pairs a call with arguments a solves
solvedComponentsOf(a) ==
  IF a.variant = "basic" THEN a.circuit.components
  ELSE flatten(a.circuit.components, a.circuit.wires, a.circuit.subcircuits).comps

joinedTerminalsOf(a) ==
  IF a.variant = "basic"
  THEN {<<terminalId(a.circuit.wires[i].fromComponentId, a.circuit.wires[i].fromNode),
          terminalId(a.circuit.wires[i].toComponentId, a.circuit.wires[i].toNode)>> :
        i \in 1..Len(a.circuit.wires)}
  ELSE LET ws == flatten(a.circuit.components, a.circuit.wires, a.circuit.subcircuits).wires
       IN {<<terminalId(ws[i].from.componentId, ws[i].from.terminal),
             terminalId(ws[i].to.componentId, ws[i].to.terminal)>> : i \in 1..Len(ws)}

RECURSIVE closureIn(_, _)
closureIn(J, S) ==
  LET N == S \cup {j[2] : j \in {x \in J : x[1] \in S}} \cup {j[1] : j \in {x \in J : x[2] \in S}}
  IN IF N = S THEN S ELSE closureIn(J, N)

\* the keys of r.nodeVoltages that lie in the electrical node of terminal t
nodeKeys(r, J, t) == DOMAIN r.nodeVoltages \cap closureIn(J, {t})

\* the voltages result r reports for the electrical node of terminal t
voltagesAt(r, J, t) == {r.nodeVoltages[n] : n \in nodeKeys(r, J, t)}

\* the first call succeeded on a non-empty circuit and the call with the
\* added component has returned
AddedComponentSolved ==
  /\ Returned /\ Len(returned) = 1
  /\ IsSuccess(returned[1].result)
  /\ Len(returned[1].arguments.circuit.components) > 0

(* C16: adding a capacitor or a logic gate, wired or unwired, to a circuit *)
(* that solves successfully yields a success again, with the same voltage  *)
(* at every terminal of the original components and the same current for   *)
(* every original component.                                               *)
C16_AddedComponentChangesNothing ==
  AddedComponentSolved =>
    \E before \in {returned[1]} :
      /\ IsSuccess(result)
      /\ \A id \in DOMAIN before.result.componentCurrents :
           /\ id \in DOMAIN result.componentCurrents
           /\ result.componentCurrents[id] = before.result.componentCurrents[id]
      /\ \E was \in {joinedTerminalsOf(before.arguments)}, now \in {joinedTerminalsOf(currentArguments)} :
           \A i \in 1..Len(solvedComponentsOf(before.arguments)), t \in {0, 1} :
             LET term == terminalId(solvedComponentsOf(before.arguments)[i].id, t)
             IN /\ voltagesAt(before.result, was, term) # {}
                /\ voltagesAt(result, now, term) = voltagesAt(before.result, was, term)

\* a wired component was added to a circuit with a node at a non-zero voltage
C16_Witness ==
  /\ AddedComponentSolved
  /\ Len(wires) > Len(returned[1].arguments.circuit.wires)
  /\ \E n \in DOMAIN returned[1].result.nodeVoltages :
       returned[1].result.nodeVoltages[n] # RZero
  /\ \E id \in DOMAIN returned[1].result.componentCurrents :
       returned[1].result.componentCurrents[id] # RZero

(* C17: in every success, every flattened component that is not a         *)
(* resistor has an entry in componentCurrents, and the entry is exactly 0. *)
C17_NonResistorCurrentZero ==
  (Returned /\ IsSuccess(result)) =>
    \A i \in flatIndices :
      ~isType(i, "resistor") =>
        /\ solvedComponents[i].id \in DOMAIN result.componentCurrents
        /\ result.componentCurrents[solvedComponents[i].id] = RZero

----------------------------------------------------------------------------
(* The two reference circuits *)

\* the current call is on circuit c, its components listed in any order
isArrangementOf(c) ==
  /\ Len(components) = Len(c.components)
  /\ {components[i] : i \in 1..Len(components)} = {c.components[i] : i \in 1..Len(c.components)}
  /\ wires = (IF variant = "basic" THEN toBasicWires(c.wires) ELSE c.wires)
  /\ subcircuits = c.subcircuits

\* result r reports for component id a current of magnitude a
reportsCurrent(r, id, a) ==
  id \in DOMAIN r.componentCurrents /\ RAbs(r.componentCurrents[id]) = a

(* C18: a 10 V source with two 100 ohm resistors in series across it gives *)
(* a success with the midpoint node at 5 V and a current of 0.05 A         *)
(* reported for each resistor.                                             *)
C18_SeriesDivider ==
  (Returned /\ isArrangementOf(SeriesFlat(10, 100, 100))) =>
    /\ IsSuccess(result)
    /\ voltagesAt(result, joinedTerminals, "r1_1") = {RInt(5)}
    /\ reportsCurrent(result, "r1", Rat(1, 20))
    /\ reportsCurrent(result, "r2", Rat(1, 20))

(* C19: a 10 V source with two 100 ohm resistors in parallel across it     *)
(* gives a success with the source-connected node at 10 V, 0.05 A reported *)
(* through each resistor and 0.1 A in total.                               *)
C19_ParallelPair ==
  (Returned /\ isArrangementOf(ParallelFlat(10, 100, 100))) =>
    /\ IsSuccess(result)
    /\ \E t \in {"v_0", "v_1"} : voltagesAt(result, joinedTerminals, t) = {RInt(10)}
    /\ reportsCurrent(result, "r1", Rat(1, 20))
    /\ reportsCurrent(result, "r2", Rat(1, 20))
    /\ RAbs(RAdd(result.componentCurrents["r1"], result.componentCurrents["r2"])) = Rat(1, 10)

----------------------------------------------------------------------------
(* The injection entry of a voltage source *)

\* the entries of vector Iv at the index of the non-ground node of source i
injectionEntries(i, Iv) ==
  {Iv[nodeIndexMap[n]][0] : n \in DOMAIN nodeIndexMap \cap electricalNode(freeTerminal(i))}

\* the assembly loop is about to process a source with exactly one terminal
\* in the ground node
AssemblingGroundedSource ==
  pc = "assemble" /\ k <= Len(expandedComponents) /\ isGroundedSource(k)

----------------------------------------------------------------------------
(* The assembled system *)

\* the assembly of G and I is complete: the forEach of simulator.ts has run
\* over every component, or the variant without flattening has returned
AssemblyFinished ==
  IF variant = "basic" THEN pc = "done"
  ELSE pc \in {"solved", "done"} \/ (pc = "assemble" /\ k > Len(expandedComponents))

\* the matrix indices of the electrical node of terminal t (none for ground)
indicesOf(t) == {nodeIndexMap[n] : n \in DOMAIN nodeIndexMap \cap electricalNode(t)}

\* the value the code pins the non-ground node of grounded source i to
constraintValue(i) ==
  IF (variant = "basic") = inGround(i, 0)
  THEN RInt(solvedComponents[i].value)
  ELSE RNeg(RInt(solvedComponents[i].value))

\* row a of G is the identity row
isIdentityRow(a) ==
  \A col \in 0..(matrixSize - 1) : G[a][col] = (IF col = a THEN ROne ELSE RZero)

(* C21: when the assembly has finished, for every voltage source with      *)
(* exactly one terminal in ground the row of G at the index of its         *)
(* non-ground node is the identity row and I at that index is the source's *)
(* constraint value, in whatever order resistors and sources are listed.   *)
C21_SourceRowsAreIdentity ==
  AssemblyFinished =>
    \A i \in flatIndices :
      isGroundedSource(i) =>
        /\ indicesOf(freeTerminal(i)) # {}
        /\ \A a \in indicesOf(freeTerminal(i)) :
             isIdentityRow(a) /\ I[a][0] = constraintValue(i)

\* how many times the conductance of resistor i is added to entry (r, c) of G:
\* +1 on the diagonal of each non-ground terminal, -1 on the two mirrored
\* entries when both terminals are outside ground
stampCount(i, r, c) ==
  LET A == indicesOf(terminalId(solvedComponents[i].id, 0))
      B == indicesOf(terminalId(solvedComponents[i].id, 1))
  IN (IF r \in A /\ c \in A THEN 1 ELSE 0) + (IF r \in B /\ c \in B THEN 1 ELSE 0)
     - (IF r \in A /\ c \in B THEN 1 ELSE 0) - (IF r \in B /\ c \in A THEN 1 ELSE 0)

\* the conductance 1 / value of resistor i
conductanceAt(i) == Rat(1, solvedComponents[i].value)

\* the assembly loop is about to process a resistor
AssemblingResistor ==
  pc = "assemble" /\ k <= Len(expandedComponents) /\ isType(k, "resistor")

\* the sum of the stamps of the resistors 1..i on entry (r, c)
RECURSIVE stampSum(_, _, _)
stampSum(i, r, c) ==
  IF i = 0 THEN RZero
  ELSE RAdd(stampSum(i - 1, r, c),
            IF isType(i, "resistor")
            THEN RMul(RInt(stampCount(i, r, c)), conductanceAt(i)) ELSE RZero)

\* row a of G is pinned by a grounded source
isPinnedRow(a) ==
  \E i \in flatIndices : isGroundedSource(i) /\ a \in indicesOf(freeTerminal(i))

(* C22: the step that processes a resistor with conductance g = 1/value    *)
(* adds g to the diagonal entry of each of its non-ground terminals,       *)
(* subtracts g from the two mirrored off-diagonal entries when both        *)
(* terminals are outside ground, and changes no other entry of G and no    *)
(* entry of I; in the variant without flattening, whose resistor loop is   *)
(* not observable step by step, every row no source pins is the sum of     *)
(* these stamps.                                                           *)
C22_ResistorStamp ==
  /\ [][AssemblingResistor =>
          /\ I' = I
          /\ DOMAIN G' = DOMAIN G
          /\ \A r, c \in 0..(matrixSize - 1) :
               G'[r][c] = RAdd(G[r][c], RMul(RInt(stampCount(k, r, c)), conductanceAt(k)))]_vars
  /\ [](variant = "basic" /\ pc = "done" =>
          \A r, c \in 0..(matrixSize - 1) :
            ~isPinnedRow(r) => G[r][c] = stampSum(Len(components), r, c))

\* the loop has stamped a resistor between two different non-ground nodes and
\* a resistor with exactly one terminal in ground
C22_Witness ==
  /\ pc = "assemble"
  /\ \E i, j \in 1..(k - 1) :
       /\ isType(i, "resistor") /\ ~inGround(i, 0) /\ ~inGround(i, 1)
       /\ indicesOf(terminalId(solvedComponents[i].id, 0))
            # indicesOf(terminalId(solvedComponents[i].id, 1))
       /\ isType(j, "resistor") /\ (inGround(j, 0) # inGround(j, 1))

----------------------------------------------------------------------------
(* The node-to-index map *)

\* the node-to-index map of the current call has been built
NodesIndexed == pc \in {"assemble", "solved", "done"} /\ GroundSelected

\* the position at which the scan of the components in input order, terminal
\* 0 before terminal 1, first meets a terminal of the electrical node N
firstSeen(N) ==
  LET at == {2 * q[1] + q[2] : q \in {x \in flatIndices \X {0, 1} :
                                         terminalId(solvedComponents[x[1]].id, x[2]) \in N}}
  IN CHOOSE x \in at : \A y \in at : x <= y

(* C23: the node-to-index map gives no index to the ground node and maps   *)
(* the other electrical nodes one-to-one onto 0..N-1, in the order in      *)
(* which the scan of the components in input order (terminal 0 before      *)
(* terminal 1) first meets each node; the matrix dimension N is the number *)
(* of non-ground nodes.                                                    *)
C23_NodeIndexMap ==
  [](NodesIndexed =>
       \E nodes \in {allNodes \ {groundClass}},
          seen \in {[n \in DOMAIN nodeIndexMap |-> firstSeen(electricalNode(n))]} :
         /\ \A n \in DOMAIN nodeIndexMap : n \notin groundClass /\ electricalNode(n) \in nodes
         /\ \A N \in nodes : Cardinality(DOMAIN nodeIndexMap \cap N) = 1
         /\ {nodeIndexMap[n] : n \in DOMAIN nodeIndexMap} = 0..(Cardinality(nodes) - 1)
         /\ matrixSize = Cardinality(nodes)
         /\ DOMAIN G = 0..(matrixSize - 1)
         /\ \A n, m \in DOMAIN nodeIndexMap :
              nodeIndexMap[n] < nodeIndexMap[m] <=> seen[n] < seen[m])

\* at least two non-ground nodes are indexed and the scan met the ground node
\* before one of them
C23_Witness ==
  /\ NodesIndexed
  /\ Cardinality(DOMAIN nodeIndexMap) >= 2
  /\ \E n \in DOMAIN nodeIndexMap : firstSeen(groundClass) < firstSeen(electricalNode(n))

----------------------------------------------------------------------------
(* Node identification *)

\* the wires have been contracted in the current call
NodesIdentified ==
  IF variant = "basic" THEN pc = "done" /\ Len(components) > 0
  ELSE pc \in {"nodes", "ground", "assemble", "solved", "done"} /\ Len(expandedComponents) > 0

\* the terminal ids of the components the solve works on
componentTerminals == {terminalId(solvedComponents[i].id, t) : i \in flatIndices, t \in {0, 1}}

\* the node id of terminal t: uf.find(t)
nodeIdOf(t) == find(parent, t).root

(* C24: node identification computes exactly the wire-connectivity         *)
(* partition: two component terminals have the same node id if and only if *)
(* a chain of wires links them, the node id is a terminal id of that       *)
(* class, and a terminal no wire touches is a node of its own.             *)
C24_NodesAreWireClasses ==
  [](NodesIdentified =>
       \E nodeId \in {[t \in componentTerminals |-> nodeIdOf(t)]} :
         \A s \in componentTerminals :
           \E class \in {electricalNode(s)} :
             /\ nodeId[s] \in class
             /\ \A t \in componentTerminals : (nodeId[s] = nodeId[t]) <=> (t \in class)
             /\ (\A j \in joinedTerminals : j[1] # s /\ j[2] # s) => nodeId[s] = s)

\* a chain of two wires links three terminals, and another terminal is touched
\* by no wire
C24_Witness ==
  /\ NodesIdentified
  /\ \E s, t \in componentTerminals :
       /\ Cardinality(electricalNode(s)) >= 3
       /\ <<s, s>> \notin joinedTerminals
       /\ \A j \in joinedTerminals : j[1] # t /\ j[2] # t

----------------------------------------------------------------------------
(* Wires on the external terminals of an instance *)

\* top-level component i is an instance whose definition the library holds
isResolvedInstance(i) ==
  isInstance(components[i]) /\ subcircuitDefIndex(subcircuits, components[i].subcircuitId) # 0

resolvedInstanceIds == {components[i].id : i \in {j \in topIndices : isResolvedInstance(j)}}

\* the external terminals of a definition by position: inputs, then outputs
externalTerminalNames(def) == def.inputs \o def.outputs

\* endpoint e with an instance's external terminal replaced by the prefixed
\* internal terminal its terminalMap records for it; e itself where the
\* endpoint is on no resolved instance or nothing is recorded
rewrittenEndpoint(e) ==
  LET hits == {i \in topIndices :
                 /\ isResolvedInstance(i)
                 /\ components[i].id = e.componentId
                 /\ LET names == externalTerminalNames(
                                   subcircuits[subcircuitDefIndex(subcircuits,
                                                                  components[i].subcircuitId)])
                    IN /\ e.terminal + 1 \in 1..Len(names)
                       /\ names[e.terminal + 1] \in DOMAIN components[i].terminalMap}
  IN IF hits = {} THEN e
     ELSE LET i == CHOOSE x \in hits : TRUE
              names == externalTerminalNames(
                         subcircuits[subcircuitDefIndex(subcircuits, components[i].subcircuitId)])
              target == components[i].terminalMap[names[e.terminal + 1]]
          IN Endpoint(instancePrefix(components[i]) \o target.componentId, target.terminal)

(* C25: after flattening, every top-level wire with an endpoint on an      *)
(* external terminal of a resolved instance has that endpoint rewritten to *)
(* the prefixed internal component id and terminal recorded for it, and no *)
(* wire of the flattened list names an instance id.                        *)
C25_InstanceWiresRewritten ==
  Flattened =>
    /\ \A i \in 1..Len(wires) :
         \E j \in 1..Len(expandedWires) :
           /\ expandedWires[j].id = wires[i].id
           /\ expandedWires[j].from = rewrittenEndpoint(wires[i].from)
           /\ expandedWires[j].to = rewrittenEndpoint(wires[i].to)
    /\ \A j \in 1..Len(expandedWires) :
         /\ expandedWires[j].from.componentId \notin resolvedInstanceIds
         /\ expandedWires[j].to.componentId \notin resolvedInstanceIds

----------------------------------------------------------------------------------------------------------------------------------------
(* The schematic editor with subcircuits: App of src/unnamed/part_001      *)
(* (1-188) and its Canvas (src/components/Toolbar.tsx 95-636).  App holds  *)
(* components, wires and subcircuits; the records are those of             *)
(* src/types/types.ts.  Screen positions are not kept: a mouse event names *)
(* the component it hits and the point relative to that component's        *)
(* origin.  The Toolbar of this App is not among the sources; its          *)
(* callbacks (part_001 150-158) are the actions that set the tool and the  *)
(* dragged type; selectedComponentType keeps its initial value.  The clock *)
(* advances when a handler reads Date.now() for an id.                     *)

\* components on the canvas, wires drawn and definitions created at most
MaxPlaced == 3
MaxDrawn == 1
MaxDefinitions == 1
\* ids handed out by Date.now() at most
MaxIds == 5

\* const COMPONENT_SIZE = 40
COMPONENT_SIZE == 40

\* the tools the handlers compare selectedTool with
SelectedTools == {"select", "add", "wire"}

\* the component types the toolbar offers here
EditorTypes == {"resistor", "subcircuit"}

\* points of a mouse event relative to the component hit: middle of the left
\* edge, of the right edge and of the bottom edge
ClickPoints ==
  {<<0, COMPONENT_SIZE \div 2>>, <<COMPONENT_SIZE, COMPONENT_SIZE \div 2>>,
   <<COMPONENT_SIZE \div 2, COMPONENT_SIZE>>}

\* getDefaultValue for the types offered
getDefaultValue(type) == IF type = "resistor" THEN 100 ELSE 0

\* x and y of the terminals handleCreateSubcircuit gives a definition
terminalPosition(id) ==
  IF id = "in1" THEN <<0, COMPONENT_SIZE \div 2>>
  ELSE IF id = "in2" THEN <<0, COMPONENT_SIZE \div 2 + 20>>
  ELSE <<80, COMPONENT_SIZE \div 2 + 10>>

\* square of the distance between (x, y) and (px, py)
distanceSquared(x, y, px, py) == (x - px) * (x - px) + (y - py) * (y - py)

\* index (from 0) of the first smallest entry of a non-empty sequence
indexOfMin(ds) ==
  (CHOOSE i \in 1..Len(ds) :
     /\ \A j \in 1..Len(ds) : ds[i] <= ds[j]
     /\ \A j \in 1..(i - 1) : ds[j] > ds[i]) - 1

\* variant of getNearestTerminal: top and bottom count as the nearer of left
\* and right, so that the index is 0 or 1
getNearestTerminalOfTwo(x, y, component, subs) ==
  indexOfMin(<<distanceSquared(x, y, 0, COMPONENT_SIZE \div 2),
               distanceSquared(x, y, COMPONENT_SIZE, COMPONENT_SIZE \div 2)>>)

\* getNearestTerminal for a point (x, y) relative to the component
getNearestTerminal(x, y, component, subs) ==
  LET d == IF component.type = "subcircuit" /\ component.subcircuitId # ""
           THEN subcircuitDefIndex(subs, component.subcircuitId) ELSE 0
      allTerminals == IF d = 0 THEN <<>> ELSE externalTerminalNames(subs[d])
      ds == [i \in 1..Len(allTerminals) |->
               distanceSquared(x, y, terminalPosition(allTerminals[i])[1],
                                     terminalPosition(allTerminals[i])[2])]
      termX == COMPONENT_SIZE \div 2
      termY == COMPONENT_SIZE \div 2
  IN IF Len(ds) > 0 /\ ds[indexOfMin(ds) + 1] < 15 * 15
     THEN indexOfMin(ds)
     ELSE indexOfMin(<<distanceSquared(x, y, 0, termY),
                       distanceSquared(x, y, COMPONENT_SIZE, termY),
                       distanceSquared(x, y, termX, 0),
                       distanceSquared(x, y, termX, COMPONENT_SIZE)>>)

\* null where the value, once set, is an endpoint
NoEndpoint == Endpoint(Null, 0)

\* the locals of simulateCircuit when no call is made
solverIdle ==
  /\ pc = "start"
  /\ expandedComponents = <<>>
  /\ expandedWires = <<>>
  /\ subcircuitTerminalToGlobalTerminalMap = EmptyMap
  /\ parent = EmptyMap
  /\ groundNode = Null
  /\ uniqueNodes = <<>>
  /\ nodeIndexMap = EmptyMap
  /\ matrixSize = 0
  /\ G = zeros(0, 0)
  /\ I = zeros(0, 1)
  /\ k = 0
  /\ floatingReturn = NoResult
  /\ V = zeros(0, 1)
  /\ result = NoResult
  /\ returned = <<>>

solverUnchanged ==
  UNCHANGED <<variant, pc, expandedComponents, expandedWires,
              subcircuitTerminalToGlobalTerminalMap, parent, groundNode, uniqueNodes,
              nodeIndexMap, matrixSize, G, I, k, floatingReturn, V, result, returned>>

\* part_001 12-22 and Toolbar.tsx 125-127: the useState initial values
InitSchematic ==
  /\ variant = "simulator"
  /\ components = <<>>
  /\ wires = <<>>
  /\ subcircuits = <<>>
  /\ app = [selectedTool |-> "select", selectedComponentType |-> "resistor",
            draggedComponentType |-> Null, draggedSubcircuitId |-> Null]
  /\ canvas = [dragging |-> Null, wireStart |-> NoEndpoint]
  /\ clock = 1
  /\ solverIdle

\* the toolbar's setSelectedTool
SetSelectedTool ==
  /\ \E t \in SelectedTools : app' = [app EXCEPT !.selectedTool = t]
  /\ UNCHANGED <<components, wires, subcircuits, canvas, clock>>
  /\ solverUnchanged

\* part_001 87-90
handleStartDragComponent ==
  /\ \E type \in EditorTypes,
        subcircuitId \in {Null} \cup {subcircuits[i].id : i \in 1..Len(subcircuits)} :
       /\ subcircuitId # Null => type = "subcircuit"
       /\ app' = [app EXCEPT !.draggedComponentType = type,
                             !.draggedSubcircuitId = subcircuitId]
  /\ UNCHANGED <<components, wires, subcircuits, canvas, clock>>
  /\ solverUnchanged

\* the component handleDropComponent builds (part_001 100-124)
droppedComponent(id, type, sid, subs) ==
  IF type = "subcircuit" /\ sid # Null
  THEN IF subcircuitDefIndex(subs, sid) # 0
       THEN CircuitComponent(id, type, 0, sid,
                             placeholderTerminalMap(subs[subcircuitDefIndex(subs, sid)]))
       ELSE CircuitComponent(id, type, getDefaultValue(type), sid, EmptyMap)
  ELSE CircuitComponent(id, type, getDefaultValue(type), "", EmptyMap)

\* part_001 93-130
handleDropComponent ==
  /\ Len(components) < MaxPlaced
  /\ IF app.draggedComponentType = Null
     THEN UNCHANGED <<components, app, clock>>
     ELSE /\ clock <= MaxIds
          /\ components' = Append(components,
                                  droppedComponent(ToString(clock), app.draggedComponentType,
                                                   app.draggedSubcircuitId, subcircuits))
          /\ app' = [app EXCEPT !.draggedComponentType = Null, !.draggedSubcircuitId = Null,
                                !.selectedTool = "select"]
          /\ clock' = clock + 1
  /\ UNCHANGED <<wires, subcircuits, canvas>>
  /\ solverUnchanged

\* Toolbar.tsx 144-170
handleCanvasClick ==
  /\ Len(components) < MaxPlaced
  /\ IF app.selectedTool # "add" \/ app.selectedComponentType = "subcircuit"
     THEN UNCHANGED <<components, clock>>
     ELSE /\ clock <= MaxIds
          /\ components' = Append(components,
                                  CircuitComponent(ToString(clock), app.selectedComponentType,
                                                   getDefaultValue(app.selectedComponentType),
                                                   "", EmptyMap))
          /\ clock' = clock + 1
  /\ UNCHANGED <<wires, subcircuits, app, canvas>>
  /\ solverUnchanged

\* Toolbar.tsx 172-194: mouse down on component i at point p
handleComponentMouseDown ==
  /\ \E i \in 1..Len(components), p \in ClickPoints :
       IF app.selectedTool = "wire"
       THEN canvas' = [canvas EXCEPT !.wireStart =
                         Endpoint(components[i].id,
                                  getNearestTerminal(p[1], p[2], components[i], subcircuits))]
       ELSE IF app.selectedTool = "select"
       THEN canvas' = [canvas EXCEPT !.dragging = components[i].id]
       ELSE UNCHANGED canvas
  /\ UNCHANGED <<components, wires, subcircuits, app, clock>>
  /\ solverUnchanged

\* Toolbar.tsx 223-255: mouse up over component i at point p, or over no
\* component (i = 0)
handleCanvasMouseUp ==
  /\ \E i \in 0..Len(components), p \in ClickPoints :
       IF canvas.dragging # Null
       THEN /\ canvas' = [canvas EXCEPT !.dragging = Null]
            /\ UNCHANGED <<wires, clock>>
       ELSE IF canvas.wireStart # NoEndpoint
       THEN /\ canvas' = [canvas EXCEPT !.wireStart = NoEndpoint]
            /\ IF i # 0 /\ components[i].id # canvas.wireStart.componentId
               THEN /\ Len(wires) < MaxDrawn
                    /\ clock <= MaxIds
                    /\ wires' = Append(wires,
                         Wire(ToString(clock), canvas.wireStart,
                              Endpoint(components[i].id,
                                       getNearestTerminal(p[1], p[2], components[i],
                                                          subcircuits))))
                    /\ clock' = clock + 1
               ELSE UNCHANGED <<wires, clock>>
       ELSE UNCHANGED <<canvas, wires, clock>>
  /\ UNCHANGED <<components, subcircuits, app>>
  /\ solverUnchanged

\* the wires handleCreateSubcircuit absorbs: those with an end on an absorbed component
wiresToAbsorb(ws, compsToAbsorb) ==
  SelectSeq(ws, LAMBDA wire :
    \E c \in 1..Len(compsToAbsorb) :
      compsToAbsorb[c].id = wire.from.componentId \/ compsToAbsorb[c].id = wire.to.componentId)

\* part_001 24-83; named tells whether the prompt returned a name
handleCreateSubcircuit ==
  /\ Len(subcircuits) < MaxDefinitions
  /\ \E named \in BOOLEAN :
       IF Len(components) < 2 \/ ~named
       THEN UNCHANGED <<components, wires, subcircuits, app, clock>>
       ELSE LET compsToAbsorb == SubSeq(components, 1, 2)
                absorbed == wiresToAbsorb(wires, compsToAbsorb)
            IN /\ clock <= MaxIds
               /\ components' = SubSeq(components, 3, Len(components))
               /\ wires' = SelectSeq(wires, LAMBDA w : ~SeqHas(absorbed, w))
               /\ subcircuits' = Append(subcircuits,
                    SubCircuit("custom_and_gate_" \o ToString(clock), compsToAbsorb, absorbed,
                               <<"in1", "in2">>, <<"out1">>))
               /\ app' = [app EXCEPT !.selectedTool = "select"]
               /\ clock' = clock + 1
  /\ UNCHANGED canvas
  /\ solverUnchanged

NextSchematic ==
  \/ SetSelectedTool
  \/ handleStartDragComponent
  \/ handleDropComponent
  \/ handleCanvasClick
  \/ handleComponentMouseDown
  \/ handleCanvasMouseUp
  \/ handleCreateSubcircuit

SpecSchematic == InitSchematic /\ [][NextSchematic]_vars

(* C26: every definition created by handleCreateSubcircuit satisfies the   *)
(* definition invariant: each endpoint of each of its internal wires is on *)
(* one of its internal components, also when an absorbed component was     *)
(* wired to a component that stays on the canvas.                          *)
C26_CreatedDefinitionIsClosed ==
  \A d \in 1..Len(subcircuits) :
    \A w \in 1..Len(subcircuits[d].internalWires) :
      \A e \in {subcircuits[d].internalWires[w].from, subcircuits[d].internalWires[w].to} :
        \E c \in 1..Len(subcircuits[d].internalComponents) :
          subcircuits[d].internalComponents[c].id = e.componentId

(* C27: every wire the editor creates between two-terminal components has  *)
(* a terminal index in {0, 1} at both endpoints.                           *)
C27_WireTerminalsValid ==
  \A w \in 1..Len(wires) :
    \A e \in {wires[w].from, wires[w].to} :
      (\E c \in 1..Len(components) :
         components[c].id = e.componentId /\ components[c].type # "subcircuit")
        => e.terminal \in {0, 1}

----------------------------------------------------------------------------------------------------------------------------------------
(* The UnionFind class on its own (simulator.ts 116-135, part_000 15-34):  *)
(* a caller that makes any sequence of find and union calls.               *)

\* the strings the caller passes
UnionFindElements == {"a_0", "a_1", "b_0", "b_1"}

InitUnionFind ==
  /\ variant = "simulator"
  /\ components = <<>>
  /\ wires = <<>>
  /\ subcircuits = <<>>
  /\ NoEditor
  /\ solverIdle

allButParentUnchanged ==
  UNCHANGED <<variant, components, wires, subcircuits, pc, expandedComponents, expandedWires,
              subcircuitTerminalToGlobalTerminalMap, groundNode, uniqueNodes, nodeIndexMap,
              matrixSize, G, I, k, floatingReturn, V, result, returned, app, canvas, clock>>

\* uf.find(x)
FindCall(x) ==
  /\ parent' = find(parent, x).parent
  /\ allButParentUnchanged

\* uf.union(a, b)
UnionCall(a, b) ==
  /\ parent' = union(parent, a, b)
  /\ allButParentUnchanged

NextUnionFind ==
  \/ \E x \in UnionFindElements : FindCall(x)
  \/ \E a, b \in UnionFindElements : UnionCall(a, b)

SpecUnionFind == InitUnionFind /\ [][NextUnionFind]_vars

\* the element reached from x by following at most n parent pointers
RECURSIVE follow(_, _, _)
follow(par, x, n) ==
  IF n = 0 \/ x \notin DOMAIN par \/ par[x] = x THEN x ELSE follow(par, par[x], n - 1)

\* the root of x: where the parent pointers lead
rootOf(par, x) == follow(par, x, Cardinality(DOMAIN par))

\* every parent is an element of the map and every chain of parents ends, within
\* as many steps as there are elements, in an element that is its own parent
isForest(par) ==
  \A x \in DOMAIN par : par[x] \in DOMAIN par /\ par[rootOf(par, x)] = rootOf(par, x)

(* C28: after any sequence of find and union calls the parent pointers     *)
(* form a forest (every chain of parents ends in an element that is its    *)
(* own parent), and a find call, with its path compression, changes the    *)
(* root of no element and returns that root.                               *)
C28_UnionFindForest ==
  /\ [](isForest(parent))
  /\ [][\A x \in UnionFindElements :
          FindCall(x) =>
            /\ \A y \in DOMAIN parent : rootOf(parent', y) = rootOf(parent, y)
            /\ x \in DOMAIN parent => find(parent, x).root = rootOf(parent, x)]_vars

\* unions have built a chain of two parent pointers, which a find compresses
C28_Witness ==
  \E x \in DOMAIN parent :
    /\ parent[x] # x
    /\ parent[parent[x]] # parent[x]
    /\ find(parent, x).parent # parent

----------------------------------------------------------------------------
(* The two variants of simulateCircuit side by side *)

\* the current call is a returned call of simulator.ts on a circuit without
\* subcircuit instances
ReturnedWithoutInstances ==
  /\ Returned /\ variant = "simulator"
  /\ \A i \in topIndices : components[i].type # "subcircuit"

(* C29: for every circuit without subcircuit instances, simulateCircuit of *)
(* simulator.ts and the variant without flattening choose the same ground  *)
(* node and return the same result, the wires of the second being the same *)
(* wires under its field names.                                            *)
C29_VariantsAgree ==
  ReturnedWithoutInstances =>
    \E r \in {runBasic(components, toBasicWires(wires))} :
      /\ Len(components) > 0 => r.groundNode \in groundClass
      /\ r.result = result

----------------------------------------------------------------------------
(* The editor with named circuits: App of part_001 189-345 with the Canvas *)
(* of Canvas.tsx and the Toolbar of Toolbar.tsx 1-94.  Components carry id, *)
(* type and value; their positions, and with them dragging, are left out.  *)
(* The wires have the fields of models/types.ts.                           *)

\* number of saved circuits, of components on the canvas and of ids generated
MaxCircuits == 1
MaxOnCanvas == 2
MaxStamps == 4

\* ToolMode of models/types.ts
ToolModes == {"add", "select"}

\* the component types the toolbar offers here
SavingTypes == {"resistor", "diode"}

\* the names typed into the circuit name input
CircuitNames == {"Untitled", "Circuit 1"}

\* renderComponent draws the two node circles (renderNodes) for these types only
rendersNodes(type) == type \in {"capacitor", "diode"}

\* getDefaultComponentValue of Canvas.tsx
getDefaultComponentValue(type) ==
  IF type = "resistor" THEN RInt(100)
  ELSE IF type = "voltage" THEN RInt(5)
  ELSE IF type = "capacitor" THEN Rat(1, 1000000)
  ELSE IF type = "inductor" THEN Rat(1, 1000)
  ELSE IF type = "diode" THEN Rat(7, 10)
  ELSE RZero

\* a component as handleCanvasClick of Canvas.tsx builds it
PlacedComponent(id, type, value) == [id |-> id, type |-> type, value |-> value]

\* null for selectedItem and for connectingWire
NoSelection == [type |-> Null, id |-> Null]
NoConnection == [fromComponentId |-> Null, fromNode |-> 0]

\* `Circuit ${n}`
circuitName(n) == "Circuit " \o ToString(n)

\* circuits.findIndex(c => c.name === name), from 1, 0 when there is none
circuitIndex(circuits, name) ==
  IF \E i \in 1..Len(circuits) : circuits[i].name = name
  THEN CHOOSE i \in 1..Len(circuits) :
         /\ circuits[i].name = name
         /\ \A j \in 1..(i - 1) : circuits[j].name # name
  ELSE 0

\* the list saveCircuit passes to setCircuits
savedCircuits(circuits, name, comps, ws) ==
  LET newCircuit == [name |-> name, components |-> comps, wires |-> ws]
      existingIndex == circuitIndex(circuits, name)
  IN IF existingIndex > 0
     THEN [circuits EXCEPT ![existingIndex] = newCircuit]
     ELSE Append(circuits, newCircuit)

\* the lists handleDeleteSelected passes to setComponents and setWires
componentsAfterDelete(comps, selectedItem) ==
  IF selectedItem.type = "component"
  THEN SelectSeq(comps, LAMBDA c : c.id # selectedItem.id)
  ELSE comps

wiresAfterDelete(ws, selectedItem) ==
  IF selectedItem.type = "component"
  THEN SelectSeq(ws, LAMBDA w : w.fromComponentId # selectedItem.id
                                /\ w.toComponentId # selectedItem.id)
  ELSE SelectSeq(ws, LAMBDA w : w.id # selectedItem.id)

InitSaving ==
  /\ variant = "basic"
  /\ components = <<>>
  /\ wires = <<>>
  /\ subcircuits = <<>>
  /\ app = [selectedComponent |-> "resistor", toolMode |-> "add",
            selectedItem |-> NoSelection, circuits |-> <<>>,
            currentCircuit |-> "Untitled"]
  /\ canvas = [connectingWire |-> NoConnection]
  /\ clock = 1
  /\ solverIdle

\* Toolbar.tsx 43, 50: the two mode buttons
onToolModeChange ==
  /\ \E mode \in ToolModes : app' = [app EXCEPT !.toolMode = mode]
  /\ UNCHANGED <<components, wires, subcircuits, canvas, clock>>
  /\ solverUnchanged

\* Toolbar.tsx 67-70: a component button
onSelectComponent ==
  /\ \E type \in SavingTypes :
       app' = [app EXCEPT !.toolMode = "add", !.selectedComponent = type]
  /\ UNCHANGED <<components, wires, subcircuits, canvas, clock>>
  /\ solverUnchanged

\* part_001 289: the circuit name input
setCurrentCircuit ==
  /\ \E name \in CircuitNames : app' = [app EXCEPT !.currentCircuit = name]
  /\ UNCHANGED <<components, wires, subcircuits, canvas, clock>>
  /\ solverUnchanged

\* part_001 206-222
saveCircuit ==
  /\ Len(savedCircuits(app.circuits, app.currentCircuit, components, wires)) <= MaxCircuits
  /\ app' = [app EXCEPT !.circuits =
               savedCircuits(app.circuits, app.currentCircuit, components, wires)]
  /\ UNCHANGED <<components, wires, subcircuits, canvas, clock>>
  /\ solverUnchanged

\* part_001 225-238; confirmed is the answer of window.confirm
newCircuit ==
  /\ \E confirmed \in BOOLEAN :
       IF (Len(components) > 0 \/ Len(wires) > 0) /\ confirmed
       THEN /\ Len(savedCircuits(app.circuits, app.currentCircuit, components, wires))
                 <= MaxCircuits
            /\ app' = [app EXCEPT
                 !.circuits = savedCircuits(app.circuits, app.currentCircuit,
                                            components, wires),
                 !.currentCircuit = circuitName(Len(app.circuits) + 1)]
       ELSE app' = [app EXCEPT !.currentCircuit = circuitName(Len(app.circuits) + 1)]
  /\ components' = <<>>
  /\ wires' = <<>>
  /\ UNCHANGED <<subcircuits, canvas, clock>>
  /\ solverUnchanged

\* part_001 241-248: the load dropdown, which offers the saved names and ""
loadCircuit ==
  /\ \E name \in {""} \cup {app.circuits[i].name : i \in 1..Len(app.circuits)} :
       IF circuitIndex(app.circuits, name) > 0
       THEN /\ components' = app.circuits[circuitIndex(app.circuits, name)].components
            /\ wires' = app.circuits[circuitIndex(app.circuits, name)].wires
            /\ app' = [app EXCEPT !.currentCircuit = name]
       ELSE UNCHANGED <<components, wires, app>>
  /\ UNCHANGED <<subcircuits, canvas, clock>>
  /\ solverUnchanged

\* part_001 258-272
handleDeleteSelected ==
  /\ IF app.selectedItem = NoSelection
     THEN UNCHANGED <<components, wires, app>>
     ELSE /\ components' = componentsAfterDelete(components, app.selectedItem)
          /\ wires' = wiresAfterDelete(wires, app.selectedItem)
          /\ app' = [app EXCEPT !.selectedItem = NoSelection]
  /\ UNCHANGED <<subcircuits, canvas, clock>>
  /\ solverUnchanged

\* Canvas.tsx 53-72: a click that reaches the svg
handleCanvasClickSaving ==
  /\ Len(components) < MaxOnCanvas
  /\ IF app.toolMode # "add"
     THEN UNCHANGED <<components, clock>>
     ELSE /\ clock <= MaxStamps
          /\ components' = Append(components,
               PlacedComponent(ToString(clock), app.selectedComponent,
                               getDefaultComponentValue(app.selectedComponent)))
          /\ clock' = clock + 1
  /\ UNCHANGED <<wires, subcircuits, app, canvas>>
  /\ solverUnchanged

\* Canvas.tsx 134-165: a click on node `node` of the drawn component i
handleNodeClick ==
  /\ \E i \in 1..Len(components), node \in {0, 1} :
       /\ rendersNodes(components[i].type)
       /\ IF app.toolMode # "add"
          THEN UNCHANGED <<canvas, wires, clock>>
          ELSE IF canvas.connectingWire = NoConnection
          THEN /\ canvas' = [canvas EXCEPT !.connectingWire =
                               [fromComponentId |-> components[i].id, fromNode |-> node]]
               /\ UNCHANGED <<wires, clock>>
          ELSE IF /\ canvas.connectingWire.fromComponentId = components[i].id
                  /\ canvas.connectingWire.fromNode = node
          THEN /\ canvas' = [canvas EXCEPT !.connectingWire = NoConnection]
               /\ UNCHANGED <<wires, clock>>
          ELSE /\ Len(wires) < MaxDrawn
               /\ clock <= MaxStamps
               /\ wires' = Append(wires,
                    BasicWire(ToString(clock), canvas.connectingWire.fromComponentId,
                              canvas.connectingWire.fromNode, components[i].id, node))
               /\ canvas' = [canvas EXCEPT !.connectingWire = NoConnection]
               /\ clock' = clock + 1
  /\ UNCHANGED <<components, subcircuits, app>>
  /\ solverUnchanged

NextSaving ==
  \/ onToolModeChange
  \/ onSelectComponent
  \/ setCurrentCircuit
  \/ saveCircuit
  \/ newCircuit
  \/ loadCircuit
  \/ handleDeleteSelected
  \/ handleCanvasClickSaving
  \/ handleNodeClick

SpecSaving == InitSaving /\ [][NextSaving]_vars

\* both ends of wire w are on components of the component list
isAttached(w, comps) ==
  /\ \E c \in 1..Len(comps) : comps[c].id = w.fromComponentId
  /\ \E c \in 1..Len(comps) : comps[c].id = w.toComponentId

(* C30: in the editor with named circuits, after any sequence of adding    *)
(* components, connecting nodes (a connection may be started before and    *)
(* finished after another operation), deleting the selection and loading a *)
(* circuit, every wire of the wire list has both ends on components of the *)
(* component list; and deleting a component removes the wires that touch   *)
(* it and no other.                                                        *)
C30_WiresStayAttached ==
  /\ [](\A w \in 1..Len(wires) : isAttached(wires[w], components))
  /\ [][handleDeleteSelected /\ app.selectedItem.type = "component" =>
          \A w \in 1..Len(wires) :
            SeqHas(wires', wires[w]) <=>
              (wires[w].fromComponentId # app.selectedItem.id
               /\ wires[w].toComponentId # app.selectedItem.id)]_vars

====
